---- MODULE Spec2Model ----
(***************************************************************************)
(* Model of the opencode-elf memory engine: QueryService                   *)
(* (src/src/services/query.ts), EmbeddingService                            *)
(* (src/src/services/embeddings.ts), cleanupExpiredData                     *)
(* (src/src/services/cleanup.ts) and the chat.params hook                   *)
(* (src/src/index.ts).                                                      *)
(*                                                                         *)
(* Conventions.                                                            *)
(*  - A string is a sequence of tokens that the program joins with single  *)
(*    blanks; character offsets are computed from the token lengths.       *)
(*  - Scores are cosine similarities times SCALE (0.7 is 70, 1.0 is 100).  *)
(*  - Time is counted in seconds.  Date.now() is read from now, which only *)
(*    moves in Tick, so two calls may read the same clock value as two     *)
(*    calls inside one millisecond do.                                     *)
(*  - sha256(x).slice(0,16) is an injective tag <<"sha", x>>.              *)
(*  - A table is the sequence of its rows in rowid (insertion) order.      *)
(***************************************************************************)
EXTENDS Integers, Sequences, FiniteSets, TLC

VARIABLES
  stores,           \* scope -> [rules, learnings, heuristics, fts]
  hasProject,       \* getDbPaths(workingDirectory).project # null
  embeddingCache,   \* EmbeddingService.embeddingCache, in Map iteration order
  lastIndex,        \* PRIVATE_TAG_PATTERN.lastIndex (the regex has the g flag)
  lastCleanupTime,  \* QueryService.lastCleanupTime
  lastCleanupTimeOther, \* lastCleanupTime of a second QueryService of the process
  initError,        \* ELFPlugin initError # null
  now,              \* Date.now()
  ticks,            \* number of clock advances so far
  inFlight,         \* generate calls that await generateUncached, in call order
  surfaced,         \* the ids of the learnings that were surfaced most recently
  applied,          \* history: the feedback applications so far, [ids, delta]
  last              \* the last call: its arguments and what it returned

vars == <<stores, hasProject, embeddingCache, lastIndex, lastCleanupTime,
          lastCleanupTimeOther, initError, now, ticks, inFlight, surfaced, applied,
          last>>

----------------------------------------------------------------------------
(* Bounds of the model *)

MaxLearnings == 2
MaxRules == 3
MaxHeuristics == 1
MaxHits == 2
MaxTicks == 2
MaxStored == 7
MaxInFlight == 2
MaxFree == 2
MaxFeedback == 2
MaxPromotions == 2
MaxFormatted == 2
MaxDepth == 3
MaxCoordinate == 3
MaxPatterns == 2

----------------------------------------------------------------------------
(* Program constants *)

SCALE == 100
DAY == 24 * 60 * 60
MAX_GOLDEN_RULES == 5
MAX_RELEVANT_LEARNINGS == 10
SIMILARITY_THRESHOLD == 70
PROJECT_BOOST == 5
HYBRID_BOOST == 10
FTS_SCORE == 100
FTS_LIMIT == 10
RULE_EXPIRATION_DAYS == 90
RULE_MIN_HITS_TO_KEEP == 1
LEARNING_EXPIRATION_DAYS == 60
HEURISTIC_EXPIRATION_DAYS == 180
AUTO_CLEANUP_ENABLED == TRUE
CLEANUP_INTERVAL == 24 * 60 * 60
CACHE_SIZE == 100
CACHE_TTL == 5 * 60
NaN == -9999
LOOKBACK_DAYS == 7
StartTime == 1000 * DAY

Scopes == {"global", "project"}

----------------------------------------------------------------------------
(* Generic sequence helpers *)

RECURSIVE SeqSum(_)
SeqSum(s) == IF s = <<>> THEN 0 ELSE Head(s) + SeqSum(Tail(s))

RECURSIVE Flat(_)
Flat(ss) == IF ss = <<>> THEN <<>> ELSE Head(ss) \o Flat(Tail(ss))

Take(s, n) == SubSeq(s, 1, IF Len(s) < n THEN Len(s) ELSE n)

Range(s) == {s[i] : i \in 1..Len(s)}

Min(a, b) == IF a < b THEN a ELSE b

(* Array.prototype.sort(cmp) is a stable sort: the elements are inserted    *)
(* one by one, each behind every element of the sorted prefix that it does *)
(* not precede.  cmp is the comparator as a function on pairs of elements. *)
InsertSorted(x, s, cmp) ==
  LET later == {i \in 1..Len(s) : cmp[<<s[i], x>>] > 0}
      pos == IF later = {} THEN Len(s) + 1
             ELSE CHOOSE i \in later : \A k \in later : i <= k
  IN SubSeq(s, 1, pos - 1) \o <<x>> \o SubSeq(s, pos, Len(s))

StableSort(s, cmp) ==
  LET sorted[k \in 0..Len(s)] ==
        IF k = 0 THEN <<>> ELSE InsertSorted(s[k], sorted[k - 1], cmp)
  IN sorted[Len(s)]

----------------------------------------------------------------------------
(* Strings *)

TokLen(t) ==
  CASE t = "<private>"  -> 9
    [] t = "<PRIVATE>"  -> 9
    [] t = "</private>" -> 10
    [] t = "</PRIVATE>" -> 10
    [] t = "[REDACTED]" -> 10
    [] t = "build"      -> 5
    [] t = "failed"     -> 6
    [] t = "docker"     -> 6
    [] t = "secret"     -> 6
    [] t = "*"          -> 1
    [] OTHER            -> 4

(* offset of the first character of token i; tokens are joined by blanks *)
StartOf(text, i) == SeqSum([k \in 1..(i - 1) |-> TokLen(text[k]) + 1])
EndOf(text, i) == StartOf(text, i) + TokLen(text[i])
StrLen(text) == IF text = <<>> THEN 0 ELSE EndOf(text, Len(text))

IsOpenTag(t) == t \in {"<private>", "<PRIVATE>"}
IsCloseTag(t) == t \in {"</private>", "</PRIVATE>"}

(* leftmost opening tag at token index >= from that has a closing tag      *)
(* behind it; 0 when there is none                                         *)
FirstOpen(text, from) ==
  LET cand == {i \in from..Len(text) :
                 IsOpenTag(text[i]) /\ \E j \in (i + 1)..Len(text) : IsCloseTag(text[j])}
  IN IF cand = {} THEN 0 ELSE CHOOSE i \in cand : \A k \in cand : i <= k

(* the lazy [\s\S]*? stops at the first closing tag behind the opening one *)
FirstClose(text, i) ==
  CHOOSE j \in (i + 1)..Len(text) :
    IsCloseTag(text[j]) /\ \A k \in (i + 1)..(j - 1) : ~IsCloseTag(text[k])

(* PRIVATE_TAG_PATTERN.test(content) started at lastIndex li *)
RegexTest(text, li) ==
  LET from == {i \in 1..Len(text) : StartOf(text, i) >= li}
      first == IF from = {} THEN Len(text) + 1
               ELSE CHOOSE i \in from : \A k \in from : i <= k
      open == IF li > StrLen(text) THEN 0 ELSE FirstOpen(text, first)
  IN IF open = 0 THEN [found |-> FALSE, lastIndex |-> 0]
     ELSE [found |-> TRUE, lastIndex |-> EndOf(text, FirstClose(text, open))]

(* containsPrivateTag without the includes("<private>") test: only the     *)
(* stateful PRIVATE_TAG_PATTERN.test(content)                              *)
ContainsPrivateTagRegexOnly(text, li) == RegexTest(text, li)

(* containsPrivateTag(content): includes("<private>") || PATTERN.test()    *)
ContainsPrivateTag(text, li) ==
  IF \E i \in 1..Len(text) : text[i] = "<private>"
  THEN [found |-> TRUE, lastIndex |-> li]
  ELSE RegexTest(text, li)

(* stripPrivateContent(content): replace every match by [REDACTED]         *)
RECURSIVE StripFrom(_, _)
StripFrom(text, from) ==
  LET open == FirstOpen(text, from)
  IN IF open = 0 THEN SubSeq(text, from, Len(text))
     ELSE SubSeq(text, from, open - 1) \o <<"[REDACTED]">>
          \o StripFrom(text, FirstClose(text, open) + 1)

StripPrivateContent(text) == StripFrom(text, 1)

Sha(x) == <<"sha", x>>

----------------------------------------------------------------------------
(* Embeddings *)

(* The embedding provider (the transformers pipeline): a fixed             *)
(* deterministic map from texts to vectors.                                *)
Embed(text) ==
  CASE text = <<"build", "failed">> -> <<4, 3>>
    [] text = <<"build", "error">>  -> <<3, 4>>
    [] text = <<"docker">>          -> <<5, 0>>
    [] OTHER                        -> <<0, 5>>

Dot(a, b) == SeqSum([i \in 1..Len(a) |-> a[i] * b[i]])

Sqrt(n) == CHOOSE r \in 0..n : r * r <= n /\ (r + 1) * (r + 1) > n

(* cosineSimilarity(a, b), times SCALE; 0/0 is NaN *)
CosineSimilarity(a, b) ==
  LET denom == Sqrt(Dot(a, a)) * Sqrt(Dot(b, b))
  IN IF denom = 0 THEN NaN ELSE (SCALE * Dot(a, b)) \div denom

(* EmbeddingService.generate(text) at clock t.  fail: the provider throws.  *)
(* The cache is the Map in iteration (insertion) order.                    *)
Generate(cache, text, t, fail) ==
  LET hits == {i \in 1..Len(cache) : cache[i].text = text}
      cached == IF hits = {} THEN 0 ELSE CHOOSE i \in hits : TRUE
      fresh == cached # 0 /\ t - cache[cached].timestamp < CACHE_TTL
      dropped == SelectSeq(cache, LAMBDA e : e.text # text)
      room == IF Len(dropped) >= CACHE_SIZE THEN Tail(dropped) ELSE dropped
      entry == [text |-> text, embedding |-> Embed(text), timestamp |-> t]
  IN IF fresh
     THEN [ok |-> TRUE, embedding |-> cache[cached].embedding,
           cache |-> cache, provider |-> FALSE]
     ELSE IF fail
     THEN [ok |-> FALSE, embedding |-> <<>>, cache |-> dropped, provider |-> TRUE]
     ELSE [ok |-> TRUE, embedding |-> Embed(text),
           cache |-> Append(room, entry), provider |-> TRUE]

(* embeddingCache.get(text): the index of the entry of text, 0 when absent *)
CachedAt(cache, text) ==
  LET at == {i \in 1..Len(cache) : cache[i].text = text}
  IN IF at = {} THEN 0 ELSE CHOOSE i \in at : TRUE

(* a lookup that also returns an entry that is exactly CACHE_TTL old *)
GenerateLookupInclusive(cache, text, t) ==
  LET cached == CachedAt(cache, text)
  IN IF cached # 0 /\ t - cache[cached].timestamp <= CACHE_TTL
     THEN [hit |-> TRUE, embedding |-> cache[cached].embedding, cache |-> cache]
     ELSE [hit |-> FALSE, embedding |-> <<>>,
           cache |-> SelectSeq(cache, LAMBDA e : e.text # text)]

(* a lookup that moves the entry it hits to the end (access order) *)
GenerateLookupTouch(cache, text, t) ==
  LET cached == CachedAt(cache, text)
  IN IF cached # 0 /\ t - cache[cached].timestamp < CACHE_TTL
     THEN [hit |-> TRUE, embedding |-> cache[cached].embedding,
           cache |-> Append(SelectSeq(cache, LAMBDA e : e.text # text), cache[cached])]
     ELSE [hit |-> FALSE, embedding |-> <<>>,
           cache |-> SelectSeq(cache, LAMBDA e : e.text # text)]

(* generate(text) at clock t up to the await of generateUncached: a hit    *)
(* returns the cached vector, an expired entry is deleted                  *)
GenerateLookup(cache, text, t) ==
  LET cached == CachedAt(cache, text)
  IN IF cached # 0 /\ t - cache[cached].timestamp < CACHE_TTL
     THEN [hit |-> TRUE, embedding |-> cache[cached].embedding, cache |-> cache]
     ELSE [hit |-> FALSE, embedding |-> <<>>,
           cache |-> SelectSeq(cache, LAMBDA e : e.text # text)]

(* a store that evicts only when the cache holds more than CACHE_SIZE *)
GenerateStoreWhenOver(cache, text, embedding, t) ==
  LET evict == Len(cache) > CACHE_SIZE /\ cache # <<>>
      room == IF evict THEN Tail(cache) ELSE cache
      at == CachedAt(room, text)
      entry == [text |-> text, embedding |-> embedding, timestamp |-> t]
  IN [evicted |-> IF evict THEN <<cache[1].text>> ELSE <<>>,
      cache |-> IF at = 0 THEN Append(room, entry) ELSE [room EXCEPT ![at] = entry]]

(* generate(text) behind the await, at clock t: the first key of the Map   *)
(* is deleted when the cache is full, then Map.set, which leaves a key     *)
(* that is present where it is                                             *)
GenerateStore(cache, text, embedding, t) ==
  LET evict == Len(cache) >= CACHE_SIZE /\ cache # <<>>
      room == IF evict THEN Tail(cache) ELSE cache
      at == CachedAt(room, text)
      entry == [text |-> text, embedding |-> embedding, timestamp |-> t]
  IN [evicted |-> IF evict THEN <<cache[1].text>> ELSE <<>>,
      cache |-> IF at = 0 THEN Append(room, entry) ELSE [room EXCEPT ![at] = entry]]

----------------------------------------------------------------------------
(* Stores *)

EmptyStore == [rules |-> <<>>, learnings |-> <<>>, heuristics |-> <<>>, fts |-> <<>>]

(* getDbClients(paths): the global client, then the project client *)
Clients == IF hasProject THEN <<"global", "project">> ELSE <<"global">>

(* getClients().scopes *)
ClientScopes == IF hasProject THEN <<"global", "project">> ELSE <<"global">>

(* scope === "project" && paths.project ? paths.project : paths.global *)
TargetStore(scope) == IF scope = "project" /\ hasProject THEN "project" ELSE "global"

(* A point of failure of one call: the stage at which a query on one store *)
(* throws ("embed": the embedding provider throws).                        *)
NoFailure == [stage |-> "none", store |-> "global"]
Fails(f, stage, store) == f.stage = stage /\ f.store = store

(* a cleanup that deletes a rule that is unused or old *)
CleanupExpiredDataUnusedOrOld(db, t) ==
  LET ruleExpirationTime == t - RULE_EXPIRATION_DAYS * DAY
      learningExpirationTime == t - LEARNING_EXPIRATION_DAYS * DAY
      heuristicExpirationTime == t - HEURISTIC_EXPIRATION_DAYS * DAY
      rules == SelectSeq(db.rules, LAMBDA r :
                 ~(r.hit_count < RULE_MIN_HITS_TO_KEEP \/ r.created_at < ruleExpirationTime))
      learnings == SelectSeq(db.learnings, LAMBDA l : ~(l.created_at < learningExpirationTime))
      gone == {l.id : l \in {x \in Range(db.learnings) : x.created_at < learningExpirationTime}}
      heuristics == SelectSeq(db.heuristics, LAMBDA h : ~(h.created_at < heuristicExpirationTime))
  IN [db |-> [rules |-> rules, learnings |-> learnings, heuristics |-> heuristics,
              fts |-> SelectSeq(db.fts, LAMBDA e : e.id \notin gone)],
      stats |-> [rulesDeleted |-> Len(db.rules) - Len(rules),
                 learningsDeleted |-> Len(db.learnings) - Len(learnings),
                 heuristicsDeleted |-> Len(db.heuristics) - Len(heuristics)]]

(* cleanupExpiredData(db) at clock t; the learnings_fts_ad trigger removes *)
(* the index entries of the deleted learnings                              *)
CleanupExpiredData(db, t) ==
  LET ruleExpirationTime == t - RULE_EXPIRATION_DAYS * DAY
      learningExpirationTime == t - LEARNING_EXPIRATION_DAYS * DAY
      heuristicExpirationTime == t - HEURISTIC_EXPIRATION_DAYS * DAY
      rules == SelectSeq(db.rules, LAMBDA r :
                 ~(r.hit_count < RULE_MIN_HITS_TO_KEEP /\ r.created_at < ruleExpirationTime))
      learnings == SelectSeq(db.learnings, LAMBDA l : ~(l.created_at < learningExpirationTime))
      gone == {l.id : l \in {x \in Range(db.learnings) : x.created_at < learningExpirationTime}}
      heuristics == SelectSeq(db.heuristics, LAMBDA h : ~(h.created_at < heuristicExpirationTime))
  IN [db |-> [rules |-> rules, learnings |-> learnings, heuristics |-> heuristics,
              fts |-> SelectSeq(db.fts, LAMBDA e : e.id \notin gone)],
      stats |-> [rulesDeleted |-> Len(db.rules) - Len(rules),
                 learningsDeleted |-> Len(db.learnings) - Len(learnings),
                 heuristicsDeleted |-> Len(db.heuristics) - Len(heuristics)]]

(* a maybeRunCleanup that records the cleanup time only when the cleanup   *)
(* succeeded                                                               *)
MaybeRunCleanupRecordsSuccess(st, lct, t, f) ==
  IF ~AUTO_CLEANUP_ENABLED \/ t - lct < CLEANUP_INTERVAL
  THEN [ok |-> TRUE, stores |-> st, lastCleanupTime |-> lct]
  ELSE [ok |-> \A i \in 1..Len(Clients) : ~Fails(f, "cleanup", Clients[i]),
        stores |-> [s \in Scopes |->
                      IF s \in Range(Clients) /\ ~Fails(f, "cleanup", s)
                      THEN CleanupExpiredData(st[s], t).db ELSE st[s]],
        lastCleanupTime |-> IF \A i \in 1..Len(Clients) : ~Fails(f, "cleanup", Clients[i])
                            THEN t ELSE lct]

(* maybeRunCleanup(): Promise.all over the clients, so the cleanup of one  *)
(* store is carried out even when the cleanup of the other one throws      *)
MaybeRunCleanup(st, lct, t, f) ==
  IF ~AUTO_CLEANUP_ENABLED \/ t - lct < CLEANUP_INTERVAL
  THEN [ok |-> TRUE, stores |-> st, lastCleanupTime |-> lct]
  ELSE [ok |-> \A i \in 1..Len(Clients) : ~Fails(f, "cleanup", Clients[i]),
        stores |-> [s \in Scopes |->
                      IF s \in Range(Clients) /\ ~Fails(f, "cleanup", s)
                      THEN CleanupExpiredData(st[s], t).db ELSE st[s]],
        lastCleanupTime |-> t]

----------------------------------------------------------------------------
(* Retrieval *)

Lower(t) ==
  CASE t = "Docker" -> "docker"
    [] t = "Build"  -> "build"
    [] OTHER        -> t

LowerAll(text) == [i \in 1..Len(text) |-> Lower(text[i])]

WithScope(row, scope) ==
  [f \in (DOMAIN row) \cup {"scope"} |-> IF f = "scope" THEN scope ELSE row[f]]

(* a comparator that orders by hit_count alone *)
RuleCmpByHits(a, b) == b.hit_count - a.hit_count

(* the comparator of allRules.sort in getTopGoldenRules *)
RuleCmp(a, b) ==
  IF a.scope = "project" /\ b.scope = "global" THEN -1
  ELSE IF a.scope = "global" /\ b.scope = "project" THEN 1
  ELSE b.hit_count - a.hit_count

(* SELECT * FROM golden_rules ORDER BY hit_count DESC *)
RulesByHits(db) ==
  StableSort(db.rules,
             [p \in Range(db.rules) \X Range(db.rules) |-> p[2].hit_count - p[1].hit_count])

(* what a call that may throw comes back with *)
Threw == [ok |-> FALSE, rows |-> <<>>]
Returned(rows) == [ok |-> TRUE, rows |-> rows]

(* getTopGoldenRules(); it throws when the query on a store throws *)
GetTopGoldenRules(st, f) ==
  IF \E i \in 1..Len(Clients) : Fails(f, "rules", Clients[i]) THEN Threw
  ELSE LET results == [i \in 1..Len(Clients) |->
                         LET rows == RulesByHits(st[Clients[i]])
                         IN [k \in 1..Len(rows) |-> WithScope(rows[k], ClientScopes[i])]]
           flat == Flat(results)
           allRules == StableSort(flat, [p \in Range(flat) \X Range(flat) |->
                                           RuleCmp(p[1], p[2])])
       IN Returned(Take(allRules, MAX_GOLDEN_RULES))

(* a comparator that orders by the raw score alone *)
LearningCmpByScore(a, b) == b.score - a.score

(* the comparator of allLearnings.sort in searchLearnings *)
LearningCmp(a, b) ==
  IF a.item.scope = "project" /\ b.item.scope = "global"
  THEN b.score - (a.score + PROJECT_BOOST)
  ELSE IF a.item.scope = "global" /\ b.item.scope = "project"
  THEN (b.score + PROJECT_BOOST) - a.score
  ELSE b.score - a.score

(* a filter that lets every score that is a number pass *)
AtLeastThresholdAnyScore(score) == score # NaN

(* result.score >= SIMILARITY_THRESHOLD; a comparison with NaN is false *)
AtLeastThreshold(score) == score # NaN /\ score >= SIMILARITY_THRESHOLD

(* searchLearnings(prompt), behind embeddingService.generate(prompt) *)
SearchLearnings(st, promptEmbedding, f) ==
  IF \E i \in 1..Len(Clients) : Fails(f, "learnings", Clients[i]) THEN Threw
  ELSE LET results == [i \in 1..Len(Clients) |->
                         LET rows == st[Clients[i]].learnings
                             scored == [k \in 1..Len(rows) |->
                                          [item |-> WithScope(rows[k], ClientScopes[i]),
                                           score |-> CosineSimilarity(promptEmbedding,
                                                                      rows[k].embedding)]]
                         IN SelectSeq(scored, LAMBDA r : AtLeastThreshold(r.score))]
           flat == Flat(results)
           allLearnings == StableSort(flat, [p \in Range(flat) \X Range(flat) |->
                                               LearningCmp(p[1], p[2])])
       IN Returned(Take(allLearnings, MAX_RELEVANT_LEARNINGS))

(* the escaping of the query in searchFTS: the operators * ( ) : ^ become  *)
(* blanks and the result is trimmed                                        *)
EscapeQuery(query) == SelectSeq(query, LAMBDA t : t \notin {"*", "(", ")", ":", "^"})

(* learnings_fts MATCH ?: every term of the query occurs in the content;   *)
(* the porter unicode61 tokenizer folds case (no two tokens of the model   *)
(* share a stem)                                                           *)
FtsMatch(content, query) == Range(LowerAll(query)) \subseteq Range(LowerAll(content))

(* a term that is not a bare word is an fts5 syntax error *)
FtsSyntaxOk(query) ==
  \A i \in 1..Len(query) :
    ~IsOpenTag(query[i]) /\ ~IsCloseTag(query[i]) /\ query[i] # "[REDACTED]"

(* searchFTS(query): the stores one after the other; a store whose query   *)
(* throws is skipped by the catch                                          *)
SearchFTS(st, query, f) ==
  LET escapedQuery == EscapeQuery(query)
      perStore(i) ==
        LET db == st[Clients[i]]
            matched == Take(SelectSeq(db.fts, LAMBDA e : FtsMatch(e.content, escapedQuery)),
                            FTS_LIMIT)
            found == SelectSeq(matched, LAMBDA e : \E l \in Range(db.learnings) : l.id = e.id)
        IN IF Fails(f, "fts", Clients[i]) \/ ~FtsSyntaxOk(escapedQuery) THEN <<>>
           ELSE [k \in 1..Len(found) |->
                   [item |-> WithScope(CHOOSE l \in Range(db.learnings) : l.id = found[k].id,
                                       ClientScopes[i]),
                    score |-> FTS_SCORE]]
  IN IF escapedQuery = <<>> THEN <<>>
     ELSE Flat([i \in 1..Len(Clients) |-> perStore(i)])

Tagged(r, matchType) ==
  [item |-> [f \in (DOMAIN r.item) \cup {"matchType"} |->
               IF f = "matchType" THEN matchType ELSE r.item[f]],
   score |-> r.score]

(* the merge of searchHybrid: vector results first, then the FTS results;  *)
(* an FTS result whose id is in the list already boosts the first entry    *)
(* that has this id                                                        *)
MergeVector(vectorResults) ==
  LET m[k \in 0..Len(vectorResults)] ==
        IF k = 0 THEN <<>>
        ELSE IF \E e \in Range(m[k - 1]) : e.item.id = vectorResults[k].item.id
             THEN m[k - 1]
             ELSE Append(m[k - 1], Tagged(vectorResults[k], "semantic"))
  IN m[Len(vectorResults)]

MergeFts(merged0, ftsResults) ==
  LET m[k \in 0..Len(ftsResults)] ==
        IF k = 0 THEN merged0
        ELSE LET prev == m[k - 1]
                 r == ftsResults[k]
                 same == {i \in 1..Len(prev) : prev[i].item.id = r.item.id}
             IN IF same = {} THEN Append(prev, Tagged(r, "keyword"))
                ELSE LET x == CHOOSE i \in same : \A j \in same : i <= j
                     IN [prev EXCEPT ![x] =
                           Tagged([item |-> prev[x].item,
                                   score |-> Min(SCALE, prev[x].score + HYBRID_BOOST)],
                                  "hybrid")]
  IN m[Len(ftsResults)]

(* searchHybrid, given the results of searchLearnings and searchFTS *)
MergeHybrid(vectorResults, ftsResults) ==
  LET merged == MergeFts(MergeVector(vectorResults), ftsResults)
  IN Take(StableSort(merged, [p \in Range(merged) \X Range(merged) |->
                                p[2].score - p[1].score]),
          MAX_RELEVANT_LEARNINGS)

(* new RegExp(pattern, "i"): an unbalanced parenthesis does not compile *)
PatternValid(pattern) == pattern \notin {"(", ")"}

(* a test that does not ignore case *)
PatternMatchesCaseSensitive(pattern, prompt) == pattern \in Range(prompt)

(* regex.test(prompt) for a literal pattern, ignoring case *)
PatternMatches(pattern, prompt) == Lower(pattern) \in Range(LowerAll(prompt))

(* The body of the callback of getMatchingHeuristics for client i, run     *)
(* when its query completes, with the seenPatterns of that moment.         *)
HeuristicsOfClient(st, i, prompt, seen0) ==
  LET rows == st[Clients[i]].heuristics
      step[k \in 0..Len(rows)] ==
        IF k = 0 THEN [seen |-> seen0, out |-> <<>>]
        ELSE LET prev == step[k - 1]
                 row == rows[k]
             IN IF row.pattern \in prev.seen THEN prev
                ELSE [seen |-> prev.seen \cup {row.pattern},
                      out |-> IF PatternValid(row.pattern) /\ PatternMatches(row.pattern, prompt)
                              THEN Append(prev.out, WithScope(row, ClientScopes[i]))
                              ELSE prev.out]
  IN step[Len(rows)]

(* getMatchingHeuristics(prompt); order lists the clients in the order in  *)
(* which their queries complete; results.flat() is in client order         *)
GetMatchingHeuristics(st, prompt, order, f) ==
  IF \E i \in 1..Len(Clients) : Fails(f, "heuristics", Clients[i]) THEN Threw
  ELSE LET done[k \in 0..Len(order)] ==
             IF k = 0 THEN [seen |-> {}, results |-> [i \in 1..Len(Clients) |-> <<>>]]
             ELSE LET r == HeuristicsOfClient(st, order[k], prompt, done[k - 1].seen)
                  IN [seen |-> r.seen,
                      results |-> [done[k - 1].results EXCEPT ![order[k]] = r.out]]
       IN Returned(Flat(done[Len(order)].results))

(* the completion orders of the concurrent queries of the clients *)
CompletionOrders == IF hasProject THEN {<<1, 2>>, <<2, 1>>} ELSE {<<1>>}

(* getContext(prompt) at clock t: maybeRunCleanup, then the three searches *)
(* under Promise.all.  The searches all start, so the prompt is embedded   *)
(* (and cached) also when another search throws.                           *)
GetContext(st, cache, lct, t, prompt, order, f) ==
  LET cleanup == MaybeRunCleanup(st, lct, t, f)
      gen == Generate(cache, prompt, t, f.stage = "embed")
      goldenRules == GetTopGoldenRules(cleanup.stores, f)
      relevantLearnings == IF gen.ok THEN SearchLearnings(cleanup.stores, gen.embedding, f)
                           ELSE Threw
      heuristics == GetMatchingHeuristics(cleanup.stores, prompt, order, f)
  IN IF ~cleanup.ok
     THEN [ok |-> FALSE, goldenRules |-> <<>>, relevantLearnings |-> <<>>,
           heuristics |-> <<>>, stores |-> cleanup.stores, cache |-> cache,
           lastCleanupTime |-> cleanup.lastCleanupTime, generated |-> <<>>]
     ELSE [ok |-> goldenRules.ok /\ relevantLearnings.ok /\ heuristics.ok,
           goldenRules |-> goldenRules.rows,
           relevantLearnings |-> relevantLearnings.rows,
           heuristics |-> heuristics.rows,
           stores |-> cleanup.stores, cache |-> gen.cache,
           lastCleanupTime |-> cleanup.lastCleanupTime, generated |-> <<prompt>>]

EmptyContext ==
  [ok |-> FALSE, goldenRules |-> <<>>, relevantLearnings |-> <<>>, heuristics |-> <<>>]

(* what the caller of getContext sees *)
ContextOf(r) ==
  [ok |-> r.ok,
   goldenRules |-> IF r.ok THEN r.goldenRules ELSE <<>>,
   relevantLearnings |-> IF r.ok THEN r.relevantLearnings ELSE <<>>,
   heuristics |-> IF r.ok THEN r.heuristics ELSE <<>>]

(* a tag that marks the items of every scope *)
ScopeTagEveryScope(scope) == <<"[project]">>

(* rule.scope === "project" ? " [project]" : "" *)
ScopeTag(scope) == IF scope = "project" THEN <<"[project]">> ELSE <<>>

(* item.category === 'success' ? (check mark) : (cross mark) *)
Emoji(category) == IF category = "success" THEN "check" ELSE "cross"

(* formatContextForPrompt(context): the parts that are joined by newlines; *)
(* a score is shown as its hundredths                                      *)
FormatContextForPrompt(context) ==
  <<<<"[ELF MEMORY]">>>>
  \o (IF Len(context.goldenRules) > 0
      THEN <<<<"\nGolden Rules:">>>>
           \o [k \in 1..Len(context.goldenRules) |->
                 <<"-">> \o context.goldenRules[k].content
                 \o ScopeTag(context.goldenRules[k].scope)]
      ELSE <<>>)
  \o (IF Len(context.relevantLearnings) > 0
      THEN <<<<"\nRelevant Past Experiences:">>>>
           \o [k \in 1..Len(context.relevantLearnings) |->
                 <<Emoji(context.relevantLearnings[k].item.category),
                   context.relevantLearnings[k].score>>
                 \o context.relevantLearnings[k].item.content
                 \o ScopeTag(context.relevantLearnings[k].item.scope)]
      ELSE <<>>)
  \o (IF Len(context.heuristics) > 0
      THEN <<<<"\nApplicable Heuristics:">>>>
           \o [k \in 1..Len(context.heuristics) |->
                 <<"-">> \o context.heuristics[k].suggestion
                 \o ScopeTag(context.heuristics[k].scope)]
      ELSE <<>>)

----------------------------------------------------------------------------
(* Inputs *)

LBuild == <<"build", "failed">>
LError == <<"build", "error">>
LDocker == <<"build", "failed", "docker">>
LPrivate == <<"key", "<private>", "secret", "</private>">>
CtxA == <<"ctxA">>
CtxB == <<"ctxB">>
CtxPrivate == <<"out", "<private>", "secret", "</private>">>

LearningInputs ==
  { [content |-> LBuild,   category |-> "failure", context |-> CtxA],
    [content |-> LError,   category |-> "success", context |-> CtxA],
    [content |-> LDocker,  category |-> "failure", context |-> CtxB],
    [content |-> LPrivate, category |-> "failure", context |-> CtxB],
    [content |-> LBuild,   category |-> "failure", context |-> CtxPrivate],
    [content |-> LError,   category |-> "failure", context |-> CtxB] }

Prompts == { <<"build", "failed">> }
RuleContents == { <<"check", "exit", "codes">> }
Patterns == { "build", "(" }
Suggestions == { <<"run", "make">> }
Deltas == { CACHE_TTL, (LEARNING_EXPIRATION_DAYS + 1) * DAY }

Failure(stage, store) == [stage |-> stage, store |-> store]
FailuresAt(stages) ==
  {NoFailure}
  \cup {Failure(g, s) : g \in stages \ {"embed"}, s \in Range(Clients)}
  \cup {Failure(g, "global") : g \in stages \cap {"embed"}}

----------------------------------------------------------------------------
(* State *)

Init ==
  /\ stores = [s \in Scopes |-> EmptyStore]
  /\ hasProject \in BOOLEAN
  /\ embeddingCache = <<>>
  /\ lastIndex = 0
  /\ lastCleanupTime = 0
  /\ lastCleanupTimeOther = 0
  /\ initError \in BOOLEAN
  /\ now = StartTime
  /\ ticks = 0
  /\ inFlight = <<>>
  /\ surfaced = {}
  /\ applied = <<>>
  /\ last = [op |-> "none"]

(* the clock moves on *)
Tick ==
  /\ ticks < MaxTicks
  /\ \E d \in Deltas : now' = now + d
  /\ ticks' = ticks + 1
  /\ last' = [op |-> "tick"]
  /\ UNCHANGED <<lastCleanupTimeOther, inFlight, stores, hasProject, embeddingCache,
                 lastIndex, lastCleanupTime, initError, surfaced, applied>>

(* the duplicate check that looks the hash up in the id column *)
AlreadyRecordedById(db, contextHash) == \E l \in Range(db.learnings) : l.id = contextHash

(* SELECT id FROM learnings WHERE context_hash = ?: existing.rows.length > 0 *)
AlreadyRecorded(db, contextHash) ==
  \E l \in Range(db.learnings) : l.context_hash = contextHash

(* an argument that the caller leaves out *)
Undefined == "undefined"
ScopeArgs == Scopes \cup {Undefined}

(* a recordLearning whose scope defaults to "global" *)
RecordLearningScopeGlobal(scope) == IF scope = Undefined THEN "global" ELSE scope

(* scope: MemoryScope = "project", the default parameter of recordLearning *)
RecordLearningScope(scope) == IF scope = Undefined THEN "project" ELSE scope

(* scope: MemoryScope = "global", the default parameter of addGoldenRule *)
AddGoldenRuleScope(scope) == IF scope = Undefined THEN "global" ELSE scope

(* queryService.recordLearning(content, category, context, scope) *)
RecordLearningResult(in, scope, f) ==
  LET inContent == ContainsPrivateTag(in.content, lastIndex)
      inContext == ContainsPrivateTag(in.context, inContent.lastIndex)
      sanitizedContent == StripPrivateContent(in.content)
      sanitizedContext == StripPrivateContent(in.context)
      target == TargetStore(scope)
      db == stores[target]
      contextHash == Sha(sanitizedContext)
      gen == Generate(embeddingCache, sanitizedContent, now, f.stage = "embed")
      id == Sha(<<sanitizedContent, now>>)
      row == [id |-> id, content |-> sanitizedContent, category |-> in.category,
              embedding |-> gen.embedding, created_at |-> now,
              context_hash |-> contextHash]
      base == [target |-> target, hash |-> contextHash, stores |-> stores,
               cache |-> embeddingCache, generated |-> <<>>, lastIndex |-> 0]
  IN IF inContent.found
     THEN [base EXCEPT !.lastIndex = inContent.lastIndex] @@ [outcome |-> "private"]
     ELSE IF inContext.found
     THEN [base EXCEPT !.lastIndex = inContext.lastIndex] @@ [outcome |-> "private"]
     ELSE IF Fails(f, "select", target)
     THEN base @@ [outcome |-> "threw"]
     ELSE IF AlreadyRecorded(db, contextHash)
     THEN base @@ [outcome |-> "duplicate"]
     ELSE IF ~gen.ok
     THEN [base EXCEPT !.cache = gen.cache, !.generated = <<sanitizedContent>>]
          @@ [outcome |-> "threw"]
     ELSE IF Fails(f, "insert", target) \/ \E l \in Range(db.learnings) : l.id = id
     THEN [base EXCEPT !.cache = gen.cache, !.generated = <<sanitizedContent>>]
          @@ [outcome |-> "threw"]
     ELSE [base EXCEPT !.cache = gen.cache, !.generated = <<sanitizedContent>>,
                       !.stores = [stores EXCEPT
                          ![target].learnings = Append(@, row),
                          ![target].fts = Append(@, [id |-> id, content |-> sanitizedContent,
                                                     category |-> in.category])]]
          @@ [outcome |-> "stored"]

RecordLearning ==
  \E in \in LearningInputs, scope \in Scopes, f \in FailuresAt({"embed"}) :
    \E r \in {RecordLearningResult(in, scope, f)} :
       /\ r.outcome = "stored" => Len(stores[r.target].learnings) < MaxLearnings
       /\ stores' = r.stores
       /\ embeddingCache' = r.cache
       /\ lastIndex' = r.lastIndex
       /\ last' = [op |-> "recordLearning", content |-> in.content, context |-> in.context,
                   target |-> r.target, hash |-> r.hash, outcome |-> r.outcome,
                   generated |-> r.generated]
       /\ UNCHANGED <<lastCleanupTimeOther, inFlight, hasProject, lastCleanupTime,
                      initError, now, ticks, surfaced, applied>>

(* queryService.addGoldenRule(content, scope) *)
AddGoldenRule ==
  \E content \in RuleContents, scope \in Scopes, f \in FailuresAt({"embed"}) :
    LET target == TargetStore(scope)
        gen == Generate(embeddingCache, content, now, f.stage = "embed")
        id == Sha(<<content, now>>)
        row == [id |-> id, content |-> content, embedding |-> gen.embedding,
                created_at |-> now, hit_count |-> 0]
        threw == \/ ~gen.ok
                 \/ Fails(f, "insert", target)
                 \/ \E r \in Range(stores[target].rules) : r.id = id
    IN /\ ~threw => Len(stores[target].rules) < MaxRules
       /\ stores' = IF threw THEN stores
                    ELSE [stores EXCEPT ![target].rules = Append(@, row)]
       /\ embeddingCache' = gen.cache
       /\ last' = [op |-> "addGoldenRule", content |-> content, target |-> target,
                   outcome |-> IF threw THEN "threw" ELSE "stored"]
       /\ UNCHANGED <<lastCleanupTimeOther, inFlight, hasProject, lastIndex,
                      lastCleanupTime, initError, now, ticks, surfaced, applied>>

(* the elf tool, mode add-heuristic: INSERT OR IGNORE keyed by the hash of *)
(* pattern + suggestion; ensureReady() is awaited outside the try          *)
AddHeuristic ==
  \E pattern \in Patterns, suggestion \in Suggestions, scope \in Scopes :
    LET target == TargetStore(scope)
        id == Sha(<<pattern, suggestion>>)
        row == [id |-> id, pattern |-> pattern, suggestion |-> suggestion,
                created_at |-> now]
        ignored == \E h \in Range(stores[target].heuristics) : h.id = id
    IN /\ (~initError /\ ~ignored) => Len(stores[target].heuristics) < MaxHeuristics
       /\ stores' = IF initError \/ ignored THEN stores
                    ELSE [stores EXCEPT ![target].heuristics = Append(@, row)]
       /\ last' = [op |-> "addHeuristic", pattern |-> pattern, target |-> target,
                   outcome |-> IF initError THEN "threw"
                               ELSE IF ignored THEN "ignored" ELSE "stored"]
       /\ UNCHANGED <<lastCleanupTimeOther, inFlight, hasProject, embeddingCache,
                      lastIndex, lastCleanupTime, initError, now, ticks, surfaced,
                      applied>>

(* queryService.getContext(prompt); failed names the stage at which a query *)
(* threw during the call ("" when none did: a point of failure in a stage  *)
(* that the call does not reach, such as a cleanup that is not due, has no *)
(* effect)                                                                 *)
GetContextCall ==
  \E prompt \in Prompts, order \in CompletionOrders,
     f \in FailuresAt({"cleanup", "rules", "learnings", "heuristics", "embed"}) :
    \E r \in {GetContext(stores, embeddingCache, lastCleanupTime, now, prompt, order, f)} :
       /\ stores' = r.stores
       /\ embeddingCache' = r.cache
       /\ lastCleanupTime' = r.lastCleanupTime
       /\ last' = [op |-> "getContext", prompt |-> prompt,
                   failed |-> IF r.ok THEN "" ELSE f.stage,
                   context |-> ContextOf(r)]
       /\ UNCHANGED <<lastCleanupTimeOther, inFlight, hasProject, lastIndex, initError,
                      now, ticks, surfaced, applied>>

(* queryService.searchHybrid(query): searchLearnings and searchFTS under   *)
(* Promise.all, then the merge                                             *)
SearchHybrid ==
  \E query \in Prompts, f \in FailuresAt({"learnings", "fts", "embed"}) :
    \E gen \in {Generate(embeddingCache, query, now, f.stage = "embed")} :
    \E vectorResults \in {IF gen.ok THEN SearchLearnings(stores, gen.embedding, f) ELSE Threw} :
    \E ftsResults \in {SearchFTS(stores, query, f)} :
       /\ embeddingCache' = gen.cache
       /\ last' = [op |-> "searchHybrid", query |-> query,
                   ok |-> vectorResults.ok,
                   vectorResults |-> vectorResults.rows,
                   ftsResults |-> ftsResults,
                   results |-> IF vectorResults.ok
                               THEN MergeHybrid(vectorResults.rows, ftsResults)
                               ELSE <<>>]
       /\ UNCHANGED <<lastCleanupTimeOther, inFlight, stores, hasProject, lastIndex,
                      lastCleanupTime, initError, now, ticks, surfaced, applied>>

(* incrementGoldenRuleHits(ruleIds): one UPDATE per client and id, all     *)
(* started before any is awaited                                           *)
IncrementGoldenRuleHits(st, ruleIds, f) ==
  LET times(id) == Cardinality({k \in 1..Len(ruleIds) : ruleIds[k] = id})
  IN [ok |-> \A i \in 1..Len(Clients) : ~Fails(f, "hits", Clients[i]),
      stores |-> [s \in Scopes |->
                    IF s \in Range(Clients) /\ ~Fails(f, "hits", s)
                    THEN [st[s] EXCEPT !.rules =
                            [k \in 1..Len(st[s].rules) |->
                               [st[s].rules[k] EXCEPT !.hit_count = @ + times(st[s].rules[k].id)]]]
                    ELSE st[s]]]

(* queryService.incrementGoldenRuleHits([id]) for a rule id of an active store *)
IncrementGoldenRuleHitsCall ==
  \E s \in Range(Clients), f \in FailuresAt({"hits"}) :
  \E k \in 1..Len(stores[s].rules) :
  \E r \in {IncrementGoldenRuleHits(stores, <<stores[s].rules[k].id>>, f)} :
     /\ \A t \in Scopes : \A j \in 1..Len(r.stores[t].rules) :
          r.stores[t].rules[j].hit_count <= MaxHits
     /\ stores' = r.stores
     /\ last' = [op |-> "incrementGoldenRuleHits", id |-> stores[s].rules[k].id,
                 outcome |-> IF r.ok THEN "done" ELSE "threw"]
     /\ UNCHANGED <<lastCleanupTimeOther, inFlight, hasProject, embeddingCache,
                    lastIndex, lastCleanupTime, initError, now, ticks, surfaced,
                    applied>>

(* a catch block that logs the error and throws it again *)
CaughtAndRethrown(result, stage) == [result EXCEPT !.failed = stage, !.raised = TRUE]

(* catch (error) { console.error(...) }: the hook fails open and returns   *)
(* normally; stage names what threw                                        *)
Caught(result, stage) == [result EXCEPT !.failed = stage]

(* the chat.params hook on params.input = {systemPrompt, message: {text}}  *)
ChatParamsResult(userMessage, systemPrompt, order, f) ==
  LET r == GetContext(stores, embeddingCache, lastCleanupTime, now, userMessage, order, f)
      context == ContextOf(r)
      ruleIds == [k \in 1..Len(context.goldenRules) |-> context.goldenRules[k].id]
      hits == IF Len(ruleIds) > 0 THEN IncrementGoldenRuleHits(r.stores, ruleIds, f)
              ELSE [ok |-> TRUE, stores |-> r.stores]
      elfMemory == FormatContextForPrompt(context)
      meaningful == \/ Len(context.goldenRules) > 0
                    \/ Len(context.relevantLearnings) > 0
                    \/ Len(context.heuristics) > 0
      untouched == [raised |-> FALSE, systemPrompt |-> <<systemPrompt>>,
                    text |-> <<userMessage>>, stores |-> stores, cache |-> embeddingCache,
                    lastCleanupTime |-> lastCleanupTime, context |-> EmptyContext,
                    failed |-> "", retrieved |-> FALSE]
  IN IF initError THEN Caught(untouched, "init")
     ELSE IF userMessage = <<>> THEN untouched
     ELSE IF ~r.ok
     THEN Caught([untouched EXCEPT !.stores = r.stores, !.cache = r.cache,
                                   !.lastCleanupTime = r.lastCleanupTime], f.stage)
     ELSE IF ~hits.ok
     THEN Caught([untouched EXCEPT !.stores = hits.stores, !.cache = r.cache,
                                   !.lastCleanupTime = r.lastCleanupTime], f.stage)
     ELSE [raised |-> FALSE, failed |-> "",
           systemPrompt |-> IF meaningful /\ systemPrompt # <<>>
                            THEN <<systemPrompt, elfMemory>> ELSE <<systemPrompt>>,
           text |-> IF meaningful /\ systemPrompt = <<>>
                    THEN <<elfMemory, userMessage>> ELSE <<userMessage>>,
           stores |-> hits.stores, cache |-> r.cache,
           lastCleanupTime |-> r.lastCleanupTime, context |-> context,
           retrieved |-> TRUE]

ChatParams ==
  \E userMessage \in Prompts \cup {<<>>}, systemPrompt \in {<<>>, <<"system">>},
     order \in CompletionOrders,
     f \in FailuresAt({"cleanup", "rules", "learnings", "heuristics", "embed", "hits"}) :
    \E r \in {ChatParamsResult(userMessage, systemPrompt, order, f)} :
       /\ \A s \in Scopes : \A k \in 1..Len(r.stores[s].rules) :
            r.stores[s].rules[k].hit_count <= MaxHits
       /\ stores' = r.stores
       /\ embeddingCache' = r.cache
       /\ lastCleanupTime' = r.lastCleanupTime
       /\ last' = [op |-> "chat.params", userMessage |-> userMessage,
                   systemPromptIn |-> systemPrompt, failed |-> r.failed,
                   raised |-> r.raised, systemPrompt |-> r.systemPrompt,
                   text |-> r.text, retrieved |-> r.retrieved, context |-> r.context]
       /\ UNCHANGED <<lastCleanupTimeOther, inFlight, hasProject, lastIndex, initError,
                      now, ticks, surfaced, applied>>

(* The engine driven by a client that records and searches learnings *)
NextLearnings ==
  \/ RecordLearning
  \/ SearchHybrid
  \/ GetContextCall

(* the plugin whose initialization succeeded *)
InitReady == Init /\ ~initError

SpecLearnings == InitReady /\ [][NextLearnings]_vars

(* The engine started on stores that earlier sessions have filled with     *)
(* rules: rule k of a store was added some days before StartTime and has   *)
(* since been surfaced hits[k] times, either never or as often as keeps it *)
(* from being cleaned up.                                                  *)
HitSeqs == UNION {[1..n -> {0, RULE_MIN_HITS_TO_KEEP}] : n \in 0..MaxRules}

StoredRules(content, hits) ==
  [k \in 1..Len(hits) |->
     [id |-> Sha(<<content, StartTime - (Len(hits) + 1 - k) * DAY>>),
      content |-> content, embedding |-> Embed(content),
      created_at |-> StartTime - (Len(hits) + 1 - k) * DAY,
      hit_count |-> hits[k]]]

InitRules ==
  /\ hasProject \in BOOLEAN
  /\ \E g \in HitSeqs, p \in (IF hasProject THEN HitSeqs ELSE {<<>>}) :
       stores = [s \in Scopes |->
                   [EmptyStore EXCEPT !.rules =
                      IF s = "global" THEN StoredRules(<<"check", "exit", "codes">>, g)
                      ELSE StoredRules(<<"write", "tests">>, p)]]
  /\ embeddingCache = <<>>
  /\ lastIndex = 0
  /\ lastCleanupTime = 0
  /\ lastCleanupTimeOther = 0
  /\ initError = FALSE
  /\ now = StartTime
  /\ ticks = 0
  /\ inFlight = <<>>
  /\ surfaced = {}
  /\ applied = <<>>
  /\ last = [op |-> "none"]

NextRules == GetContextCall

SpecRules == InitRules /\ [][NextRules]_vars

(* The plugin: the tool adds rules and heuristics, the hook surfaces them *)
NextHook ==
  \/ AddGoldenRule
  \/ AddHeuristic
  \/ ChatParams

SpecHook == Init /\ [][NextHook]_vars

(* The plugin with heuristics *)
NextHeuristics ==
  \/ Tick
  \/ AddHeuristic
  \/ GetContextCall

SpecHeuristics == InitReady /\ [][NextHeuristics]_vars

(* The engine started on stores that earlier sessions have filled with     *)
(* learnings, one a day per store (the project store half a day behind the *)
(* global one), their contents taken in turn from StoredContents.          *)
StoredContents == <<LBuild, LError, LBuild, LDocker>>

StoredLearnings(n, shift, behind) ==
  [k \in 1..n |->
     LET content == StoredContents[((k + shift) % Len(StoredContents)) + 1]
         created == StartTime - (n + 1 - k) * DAY - behind
     IN [id |-> Sha(<<content, created>>), content |-> content, category |-> "failure",
         embedding |-> Embed(content), created_at |-> created,
         context_hash |-> Sha(<<"session", created>>)]]

FtsOf(learnings) ==
  [k \in 1..Len(learnings) |->
     [id |-> learnings[k].id, content |-> learnings[k].content,
      category |-> learnings[k].category]]

InitStored ==
  /\ hasProject \in BOOLEAN
  /\ \E g \in 0..MaxStored, p \in (IF hasProject THEN 0..MaxStored ELSE {0}),
        shift \in 0..(Len(StoredContents) - 1) :
       stores = [s \in Scopes |->
                   LET learnings == IF s = "global" THEN StoredLearnings(g, shift, 0)
                                    ELSE StoredLearnings(p, shift, DAY \div 2)
                   IN [EmptyStore EXCEPT !.learnings = learnings, !.fts = FtsOf(learnings)]]
  /\ embeddingCache = <<>>
  /\ lastIndex = 0
  /\ lastCleanupTime = 0
  /\ lastCleanupTimeOther = 0
  /\ initError = FALSE
  /\ now = StartTime
  /\ ticks = 0
  /\ inFlight = <<>>
  /\ surfaced = {}
  /\ applied = <<>>
  /\ last = [op |-> "none"]

NextStored ==
  \/ GetContextCall
  \/ SearchHybrid

SpecStored == InitStored /\ [][NextStored]_vars

(* The embedding service with calls in flight.  The cache was filled by    *)
(* earlier calls, one a second, for texts that do not come again, except   *)
(* the first of them.                                                      *)
Filler(i) == <<"filler", ToString(i)>>

FilledCache(n) ==
  [i \in 1..n |-> [text |-> Filler(i), embedding |-> Embed(Filler(i)),
                   timestamp |-> StartTime - (n - i) - 1]]

CacheTexts == {<<"docker">>, Filler(1)}

InitCache ==
  /\ stores = [s \in Scopes |-> EmptyStore]
  /\ hasProject = FALSE
  /\ embeddingCache \in {FilledCache(n) : n \in {0} \cup ((CACHE_SIZE - MaxFree)..CACHE_SIZE)}
  /\ lastIndex = 0
  /\ lastCleanupTime = 0
  /\ lastCleanupTimeOther = 0
  /\ initError = FALSE
  /\ now = StartTime
  /\ ticks = 0
  /\ inFlight = <<>>
  /\ surfaced = {}
  /\ applied = <<>>
  /\ last = [op |-> "none"]

(* embeddingService.generate(text) up to its await; age is the age of the  *)
(* entry that the call found                                               *)
GenerateCall ==
  \E text \in CacheTexts :
    \E r \in {GenerateLookup(embeddingCache, text, now)} :
      /\ ~r.hit => Len(inFlight) < MaxInFlight
      /\ embeddingCache' = r.cache
      /\ inFlight' = IF r.hit THEN inFlight ELSE Append(inFlight, text)
      /\ last' = [op |-> "generate", text |-> text, hit |-> r.hit,
                  embedding |-> r.embedding,
                  age |-> IF CachedAt(embeddingCache, text) = 0 THEN <<>>
                          ELSE <<now - embeddingCache[CachedAt(embeddingCache, text)].timestamp>>]
      /\ UNCHANGED <<lastCleanupTimeOther, stores, hasProject, lastIndex,
                     lastCleanupTime, initError, now, ticks, surfaced, applied>>

WithoutCall(calls, i) == SubSeq(calls, 1, i - 1) \o SubSeq(calls, i + 1, Len(calls))

(* generateUncached of a call in flight returns: the rest of generate *)
GenerateUncachedReturns ==
  \E i \in 1..Len(inFlight) :
    \E r \in {GenerateStore(embeddingCache, inFlight[i], Embed(inFlight[i]), now)} :
      /\ embeddingCache' = r.cache
      /\ inFlight' = WithoutCall(inFlight, i)
      /\ last' = [op |-> "generate.stored", text |-> inFlight[i],
                  embedding |-> Embed(inFlight[i]), evicted |-> r.evicted]
      /\ UNCHANGED <<lastCleanupTimeOther, stores, hasProject, lastIndex,
                     lastCleanupTime, initError, now, ticks, surfaced, applied>>

(* generateUncached of a call in flight throws: generate throws *)
GenerateUncachedThrows ==
  \E i \in 1..Len(inFlight) :
    /\ inFlight' = WithoutCall(inFlight, i)
    /\ last' = [op |-> "generate.threw", text |-> inFlight[i]]
    /\ UNCHANGED <<lastCleanupTimeOther, stores, hasProject, embeddingCache, lastIndex,
                   lastCleanupTime, initError, now, ticks, surfaced, applied>>

NextCache ==
  \/ Tick
  \/ GenerateCall
  \/ GenerateUncachedReturns
  \/ GenerateUncachedThrows

SpecCache == InitCache /\ [][NextCache]_vars

(* The stores as earlier sessions left them, with rows of several ages in  *)
(* days at StartTime: the global store holds any of the rows below, the    *)
(* project store all of them.                                              *)
AgedRule(days, hits) ==
  [id |-> Sha(<<<<"check", "exit", "codes">>, StartTime - days * DAY>>),
   content |-> <<"check", "exit", "codes">>, embedding |-> Embed(<<"check", "exit", "codes">>),
   created_at |-> StartTime - days * DAY, hit_count |-> hits]

AgedLearning(days) ==
  [id |-> Sha(<<LBuild, StartTime - days * DAY>>), content |-> LBuild,
   category |-> "failure", embedding |-> Embed(LBuild),
   created_at |-> StartTime - days * DAY, context_hash |-> Sha(<<"session", days>>)]

AgedHeuristic(days) ==
  [id |-> Sha(<<"build", <<"run", "make", ToString(days)>>>>), pattern |-> "build",
   suggestion |-> <<"run", "make", ToString(days)>>, created_at |-> StartTime - days * DAY]

AgedRules ==
  <<AgedRule(RULE_EXPIRATION_DAYS + 2, RULE_MIN_HITS_TO_KEEP),
    AgedRule(RULE_EXPIRATION_DAYS + 1, 0),
    AgedRule(RULE_EXPIRATION_DAYS, 0),
    AgedRule(1, 0)>>

AgedLearnings ==
  <<AgedLearning(LEARNING_EXPIRATION_DAYS + 1),
    AgedLearning(LEARNING_EXPIRATION_DAYS),
    AgedLearning(1)>>

AgedHeuristics ==
  <<AgedHeuristic(HEURISTIC_EXPIRATION_DAYS + 1),
    AgedHeuristic(HEURISTIC_EXPIRATION_DAYS)>>

(* the rows of s at the indices in keep, in the order of s *)
RowsAt(s, keep) ==
  LET rows[k \in 0..Len(s)] ==
        IF k = 0 THEN <<>>
        ELSE IF k \in keep THEN Append(rows[k - 1], s[k]) ELSE rows[k - 1]
  IN rows[Len(s)]

InitCleanup ==
  /\ hasProject = TRUE
  /\ \E r \in SUBSET (1..Len(AgedRules)), l \in SUBSET (1..Len(AgedLearnings)),
        h \in SUBSET (1..Len(AgedHeuristics)) :
       stores = [s \in Scopes |->
                   IF s = "global"
                   THEN [rules |-> RowsAt(AgedRules, r),
                         learnings |-> RowsAt(AgedLearnings, l),
                         heuristics |-> RowsAt(AgedHeuristics, h),
                         fts |-> FtsOf(RowsAt(AgedLearnings, l))]
                   ELSE [rules |-> AgedRules, learnings |-> AgedLearnings,
                         heuristics |-> AgedHeuristics, fts |-> FtsOf(AgedLearnings)]]
  /\ embeddingCache = <<>>
  /\ lastIndex = 0
  /\ lastCleanupTime = 0
  /\ lastCleanupTimeOther = 0
  /\ initError = FALSE
  /\ now = StartTime
  /\ ticks = 0
  /\ inFlight = <<>>
  /\ surfaced = {}
  /\ applied = <<>>
  /\ last = [op |-> "none"]

(* cleanupExpiredData(db) on the database of one store *)
RunCleanup ==
  \E s \in Range(Clients) :
    \E r \in {CleanupExpiredData(stores[s], now)} :
      /\ stores' = [stores EXCEPT ![s] = r.db]
      /\ last' = [op |-> "cleanup", store |-> s, stats |-> r.stats]
      /\ UNCHANGED <<lastCleanupTimeOther, hasProject, embeddingCache, lastIndex,
                     lastCleanupTime, initError, now, ticks, inFlight, surfaced,
                     applied>>

NextCleanup ==
  \/ Tick
  \/ RunCleanup

SpecCleanup == InitCleanup /\ [][NextCleanup]_vars

(* getContext(prompt) on the QueryService of a second plugin instance that *)
(* the host has created in the same process for the same directory: its    *)
(* own lastCleanupTime, the same databases and the same embedding service  *)
GetContextCallOther ==
  \E prompt \in Prompts, order \in CompletionOrders,
     f \in FailuresAt({"cleanup", "rules", "learnings", "heuristics", "embed"}) :
    \E r \in {GetContext(stores, embeddingCache, lastCleanupTimeOther, now, prompt, order, f)} :
       /\ stores' = r.stores
       /\ embeddingCache' = r.cache
       /\ lastCleanupTimeOther' = r.lastCleanupTime
       /\ last' = [op |-> "getContext", prompt |-> prompt,
                   failed |-> IF r.ok THEN "" ELSE f.stage,
                   context |-> ContextOf(r)]
       /\ UNCHANGED <<hasProject, lastIndex, lastCleanupTime, initError, now, ticks,
                      inFlight, surfaced, applied>>

(* The process: the clock and the retrieval calls of its plugin instances *)
NextProcess ==
  \/ Tick
  \/ GetContextCall
  \/ GetContextCallOther

SpecProcess == InitReady /\ [][NextProcess]_vars

----------------------------------------------------------------------------
(* Consolidation *)

(* a selection that takes the learnings of every age *)
RecentLearningsOfAnyAge(st, t) ==
  Flat([i \in 1..Len(Clients) |->
          LET rows == st[Clients[i]].learnings
          IN [k \in 1..Len(rows) |->
                [id |-> rows[k].id, content |-> rows[k].content,
                 embedding |-> rows[k].embedding, dbPath |-> Clients[i]]]])

(* SELECT * FROM learnings WHERE created_at > ? on the global database and *)
(* then on the project database, at clock t                                *)
RecentLearnings(st, t) ==
  Flat([i \in 1..Len(Clients) |->
          LET rows == SelectSeq(st[Clients[i]].learnings,
                                LAMBDA l : l.created_at > t - LOOKBACK_DAYS * DAY)
          IN [k \in 1..Len(rows) |->
                [id |-> rows[k].id, content |-> rows[k].content,
                 embedding |-> rows[k].embedding, dbPath |-> Clients[i]]]])

(* an inner loop that takes every learning at threshold to the seed,       *)
(* whether or not an earlier cluster has taken it                          *)
ClusterOfEverySimilar(allLearnings, i, processed0, threshold) ==
  LET grow[j \in i..Len(allLearnings)] ==
        IF j = i
        THEN [content |-> <<allLearnings[i].content>>, ids |-> <<allLearnings[i].id>>,
              dbPaths |-> <<allLearnings[i].dbPath>>, processed |-> processed0]
        ELSE LET prev == grow[j - 1]
                 similarity == CosineSimilarity(allLearnings[i].embedding,
                                                allLearnings[j].embedding)
             IN IF similarity # NaN /\ similarity >= threshold
                THEN [content |-> Append(prev.content, allLearnings[j].content),
                      ids |-> Append(prev.ids, allLearnings[j].id),
                      dbPaths |-> Append(prev.dbPaths, allLearnings[j].dbPath),
                      processed |-> prev.processed \cup {allLearnings[j].id}]
                ELSE prev
  IN grow[Len(allLearnings)]

(* the inner loop of findEmergentPatterns for the seed allLearnings[i] *)
ClusterOf(allLearnings, i, processed0, threshold) ==
  LET grow[j \in i..Len(allLearnings)] ==
        IF j = i
        THEN [content |-> <<allLearnings[i].content>>, ids |-> <<allLearnings[i].id>>,
              dbPaths |-> <<allLearnings[i].dbPath>>, processed |-> processed0]
        ELSE LET prev == grow[j - 1]
                 similarity == CosineSimilarity(allLearnings[i].embedding,
                                                allLearnings[j].embedding)
             IN IF allLearnings[j].id \in prev.processed THEN prev
                ELSE IF similarity # NaN /\ similarity >= threshold
                THEN [content |-> Append(prev.content, allLearnings[j].content),
                      ids |-> Append(prev.ids, allLearnings[j].id),
                      dbPaths |-> Append(prev.dbPaths, allLearnings[j].dbPath),
                      processed |-> prev.processed \cup {allLearnings[j].id}]
                ELSE prev
  IN grow[Len(allLearnings)]

(* a scan that keeps only the clusters with more than minCount members *)
FindEmergentPatternsAboveMinCount(st, t, threshold, minCount) ==
  LET allLearnings == RecentLearnings(st, t)
      scan[i \in 0..Len(allLearnings)] ==
        IF i = 0 THEN [clusters |-> <<>>, processed |-> {}]
        ELSE LET prev == scan[i - 1]
                 currentCluster == ClusterOf(allLearnings, i, prev.processed, threshold)
             IN IF allLearnings[i].id \in prev.processed THEN prev
                ELSE [clusters |-> IF Len(currentCluster.ids) > minCount
                                   THEN Append(prev.clusters,
                                               [content |-> currentCluster.content,
                                                ids |-> currentCluster.ids,
                                                dbPaths |-> currentCluster.dbPaths])
                                   ELSE prev.clusters,
                      processed |-> currentCluster.processed]
  IN scan[Len(allLearnings)].clusters

(* ConsolidationService.findEmergentPatterns(threshold, minCount) at clock t *)
FindEmergentPatterns(st, t, threshold, minCount) ==
  LET allLearnings == RecentLearnings(st, t)
      scan[i \in 0..Len(allLearnings)] ==
        IF i = 0 THEN [clusters |-> <<>>, processed |-> {}]
        ELSE LET prev == scan[i - 1]
                 currentCluster == ClusterOf(allLearnings, i, prev.processed, threshold)
             IN IF allLearnings[i].id \in prev.processed THEN prev
                ELSE [clusters |-> IF Len(currentCluster.ids) >= minCount
                                   THEN Append(prev.clusters,
                                               [content |-> currentCluster.content,
                                                ids |-> currentCluster.ids,
                                                dbPaths |-> currentCluster.dbPaths])
                                   ELSE prev.clusters,
                      processed |-> currentCluster.processed]
  IN scan[Len(allLearnings)].clusters

Thresholds == {80, 85}
MinCounts == {2, 3}

FindEmergentPatternsCall ==
  \E threshold \in Thresholds, minCount \in MinCounts :
    /\ last' = [op |-> "findEmergentPatterns", threshold |-> threshold,
                minCount |-> minCount, at |-> now,
                clusters |-> FindEmergentPatterns(stores, now, threshold, minCount)]
    /\ UNCHANGED <<stores, hasProject, embeddingCache, lastIndex, lastCleanupTime,
                   lastCleanupTimeOther, initError, now, ticks, inFlight, surfaced,
                   applied>>

NextConsolidation ==
  \/ Tick
  \/ FindEmergentPatternsCall

SpecConsolidation == InitStored /\ [][NextConsolidation]_vars

----------------------------------------------------------------------------
(* Feedback loop.  The sources declare Learning.utility_score and test the *)
(* UPDATE statement; the loop around it follows section 4.4 of the         *)
(* specification.  Utility scores are counted in hundredths, as the        *)
(* similarity scores are.                                                  *)

(* the deltas of the feedback applications: 0.1 down, 0.1 up, 0.2 up *)
FeedbackDeltas == {0 - 10, 10, 20}

(* the learnings table with its utility_score column at the default 1.0 *)
WithUtility(learnings) ==
  [k \in 1..Len(learnings) |->
     [f \in (DOMAIN learnings[k]) \cup {"utility_score"} |->
        IF f = "utility_score" THEN SCALE ELSE learnings[k][f]]]

(* an update that sets the score to the default plus the delta *)
UpdateLearningUtilityFromDefault(db, id, delta) ==
  [db EXCEPT !.learnings =
     [k \in 1..Len(db.learnings) |->
        IF db.learnings[k].id = id
        THEN [db.learnings[k] EXCEPT !.utility_score = SCALE + delta]
        ELSE db.learnings[k]]]

(* UPDATE learnings SET utility_score = utility_score + ? WHERE id = ? *)
UpdateLearningUtility(db, id, delta) ==
  [db EXCEPT !.learnings =
     [k \in 1..Len(db.learnings) |->
        IF db.learnings[k].id = id
        THEN [db.learnings[k] EXCEPT !.utility_score = @ + delta]
        ELSE db.learnings[k]]]

RECURSIVE UpdateLearningUtilities(_, _, _)
UpdateLearningUtilities(db, ids, delta) ==
  IF ids = {} THEN db
  ELSE LET id == CHOOSE x \in ids : TRUE
       IN UpdateLearningUtilities(UpdateLearningUtility(db, id, delta), ids \ {id}, delta)

(* a feedback application that leaves the surfaced ids in place *)
FeedbackApplyKeepSurfaced(st, ids, delta) ==
  [stores |-> [s \in Scopes |->
                 IF s \in Range(Clients) THEN UpdateLearningUtilities(st[s], ids, delta)
                 ELSE st[s]],
   surfaced |-> ids]

(* an outcome is observed: the delta is applied to every surfaced id in    *)
(* whichever store holds it, and the surfaced ids are consumed             *)
FeedbackApply(st, ids, delta) ==
  [stores |-> [s \in Scopes |->
                 IF s \in Range(Clients) THEN UpdateLearningUtilities(st[s], ids, delta)
                 ELSE st[s]],
   surfaced |-> {}]

InitFeedback ==
  /\ hasProject \in BOOLEAN
  /\ \E g \in 0..MaxLearnings, p \in (IF hasProject THEN 0..MaxLearnings ELSE {0}),
        shift \in 0..(Len(StoredContents) - 1) :
       stores = [s \in Scopes |->
                   LET learnings == IF s = "global" THEN StoredLearnings(g, shift, 0)
                                    ELSE StoredLearnings(p, shift, DAY \div 2)
                   IN [EmptyStore EXCEPT !.learnings = WithUtility(learnings),
                                         !.fts = FtsOf(learnings)]]
  /\ embeddingCache = <<>>
  /\ lastIndex = 0
  /\ lastCleanupTime = 0
  /\ lastCleanupTimeOther = 0
  /\ initError = FALSE
  /\ now = StartTime
  /\ ticks = 0
  /\ inFlight = <<>>
  /\ surfaced = {}
  /\ applied = <<>>
  /\ last = [op |-> "none"]

(* the caller retrieves the context of a prompt and records the ids of the *)
(* learnings that were surfaced                                            *)
MarkSurfaced ==
  \E prompt \in Prompts, order \in CompletionOrders :
    \E r \in {GetContext(stores, embeddingCache, lastCleanupTime, now, prompt, order,
                         NoFailure)} :
       /\ stores' = r.stores
       /\ embeddingCache' = r.cache
       /\ lastCleanupTime' = r.lastCleanupTime
       /\ surfaced' = {r.relevantLearnings[k].item.id : k \in 1..Len(r.relevantLearnings)}
       /\ last' = [op |-> "markSurfaced", prompt |-> prompt,
                   ids |-> {r.relevantLearnings[k].item.id :
                              k \in 1..Len(r.relevantLearnings)}]
       /\ UNCHANGED <<hasProject, lastIndex, lastCleanupTimeOther, initError, now, ticks,
                      inFlight, applied>>

(* the outcome of the interaction is observed *)
ApplyFeedback ==
  \E delta \in FeedbackDeltas :
    \E r \in {FeedbackApply(stores, surfaced, delta)} :
       /\ Len(applied) < MaxFeedback
       /\ stores' = r.stores
       /\ surfaced' = r.surfaced
       /\ applied' = Append(applied, [ids |-> surfaced, delta |-> delta])
       /\ last' = [op |-> "feedback", delta |-> delta, ids |-> surfaced]
       /\ UNCHANGED <<hasProject, embeddingCache, lastIndex, lastCleanupTime,
                      lastCleanupTimeOther, initError, now, ticks, inFlight>>

NextFeedback ==
  \/ MarkSurfaced
  \/ ApplyFeedback

SpecFeedback == InitFeedback /\ [][NextFeedback]_vars

----------------------------------------------------------------------------
(* Promotion *)

(* `Emergent Rule: ${cluster.content[0]}` *)
EmergentRule(cluster) == <<"Emergent", "Rule:">> \o cluster.content[1]

(* a promotion that adds nothing when the store holds a rule of the same   *)
(* content                                                                 *)
PromoteToRuleOncePerContent(st, cache, cluster, scope, t, f) ==
  LET summary == EmergentRule(cluster)
      target == TargetStore(scope)
      gen == Generate(cache, summary, t, f.stage = "embed")
      id == Sha(<<summary, t>>)
      row == [id |-> id, content |-> summary, embedding |-> gen.embedding,
              created_at |-> t, hit_count |-> 0]
      threw == \/ ~gen.ok
               \/ Fails(f, "insert", target)
               \/ \E r \in Range(st[target].rules) : r.id = id
      known == \E r \in Range(st[target].rules) : r.content = summary
  IN [summary |-> summary, target |-> target, threw |-> threw, cache |-> gen.cache,
      stores |-> IF threw \/ known THEN st
                 ELSE [st EXCEPT ![target].rules = Append(@, row)]]

(* ConsolidationService.promoteToRule(cluster, scope) at clock t: the      *)
(* summary goes through queryService.addGoldenRule, whose INSERT throws on *)
(* an id, the hash of content + Date.now(), that the table already holds   *)
PromoteToRule(st, cache, cluster, scope, t, f) ==
  LET summary == EmergentRule(cluster)
      target == TargetStore(scope)
      gen == Generate(cache, summary, t, f.stage = "embed")
      id == Sha(<<summary, t>>)
      row == [id |-> id, content |-> summary, embedding |-> gen.embedding,
              created_at |-> t, hit_count |-> 0]
      threw == \/ ~gen.ok
               \/ Fails(f, "insert", target)
               \/ \E r \in Range(st[target].rules) : r.id = id
  IN [summary |-> summary, target |-> target, threw |-> threw, cache |-> gen.cache,
      stores |-> IF threw THEN st
                 ELSE [st EXCEPT ![target].rules = Append(@, row)]]

(* scripts/consolidate.ts: a cluster that findEmergentPatterns(0.85, 3)    *)
(* returns is promoted                                                     *)
PromoteToRuleCall ==
  \E scope \in Scopes, f \in FailuresAt({"embed"}) :
  \E cluster \in Range(FindEmergentPatterns(stores, now, 85, 3)) :
  \E r \in {PromoteToRule(stores, embeddingCache, cluster, scope, now, f)} :
    /\ ~r.threw => Len(stores["global"].rules) + Len(stores["project"].rules)
                      < MaxPromotions
    /\ stores' = r.stores
    /\ embeddingCache' = r.cache
    /\ last' = [op |-> "promoteToRule", cluster |-> cluster, scope |-> scope,
                target |-> r.target, summary |-> r.summary,
                outcome |-> IF r.threw THEN "threw" ELSE "returned"]
    /\ UNCHANGED <<hasProject, lastIndex, lastCleanupTime, lastCleanupTimeOther,
                   initError, now, ticks, inFlight, surfaced, applied>>

NextPromotion ==
  \/ Tick
  \/ PromoteToRuleCall

(* the stores as the consolidation script finds them: a full week of       *)
(* learnings in the global store and none or a full week in the project    *)
(* store                                                                   *)
InitPromotion ==
  /\ InitStored
  /\ Len(stores["global"].learnings) = MaxStored
  /\ Len(stores["project"].learnings) \in {0, MaxStored}

SpecPromotion == InitPromotion /\ [][NextPromotion]_vars

----------------------------------------------------------------------------
(* Formatting *)

(* The Contexts that formatContextForPrompt is given: up to MaxFormatted   *)
(* items a list, of either scope, as getContext tags them.                 *)
SeqsUpTo(S, n) == UNION {[1..k -> S] : k \in 0..n}

FormattedRules ==
  {WithScope([id |-> Sha(<<c, StartTime>>), content |-> c, embedding |-> Embed(c),
              created_at |-> StartTime, hit_count |-> 0], s) :
     c \in RuleContents, s \in Scopes}

FormattedLearnings ==
  {[item |-> WithScope([id |-> Sha(<<LBuild, StartTime>>), content |-> LBuild,
                        category |-> c, embedding |-> Embed(LBuild),
                        created_at |-> StartTime,
                        context_hash |-> Sha(<<"session", StartTime>>)], s),
    score |-> SCALE] :
     c \in {"success", "failure"}, s \in Scopes}

FormattedHeuristics ==
  {WithScope([id |-> Sha(<<"build", u>>), pattern |-> "build", suggestion |-> u,
              created_at |-> StartTime], s) :
     u \in Suggestions, s \in Scopes}

Contexts ==
  {[goldenRules |-> r, relevantLearnings |-> l, heuristics |-> h] :
     r \in SeqsUpTo(FormattedRules, MaxFormatted),
     l \in SeqsUpTo(FormattedLearnings, MaxFormatted),
     h \in SeqsUpTo(FormattedHeuristics, MaxFormatted)}

(* a Context is at hand *)
InitFormat ==
  /\ stores = [s \in Scopes |-> EmptyStore]
  /\ hasProject = TRUE
  /\ embeddingCache = <<>>
  /\ lastIndex = 0
  /\ lastCleanupTime = 0
  /\ lastCleanupTimeOther = 0
  /\ initError = FALSE
  /\ now = StartTime
  /\ ticks = 0
  /\ inFlight = <<>>
  /\ surfaced = {}
  /\ applied = <<>>
  /\ \E context \in Contexts : last = [op |-> "context", context |-> context]

(* queryService.formatContextForPrompt(context) *)
FormatContextForPromptCall ==
  /\ "context" \in DOMAIN last
  /\ last' = [op |-> "formatContextForPrompt", context |-> last.context,
              formatted |-> FormatContextForPrompt(last.context)]
  /\ UNCHANGED <<stores, hasProject, embeddingCache, lastIndex, lastCleanupTime,
                 lastCleanupTimeOther, initError, now, ticks, inFlight, surfaced,
                 applied>>

NextFormat == FormatContextForPromptCall

SpecFormat == InitFormat /\ [][NextFormat]_vars

----------------------------------------------------------------------------
(* The store of a write *)

(* queryService.addGoldenRule(content, scope) at clock t *)
AddGoldenRuleResult(st, cache, content, scope, t, f) ==
  LET target == TargetStore(scope)
      gen == Generate(cache, content, t, f.stage = "embed")
      id == Sha(<<content, t>>)
      row == [id |-> id, content |-> content, embedding |-> gen.embedding,
              created_at |-> t, hit_count |-> 0]
      threw == \/ ~gen.ok
               \/ Fails(f, "insert", target)
               \/ \E r \in Range(st[target].rules) : r.id = id
  IN [target |-> target, threw |-> threw, cache |-> gen.cache,
      stores |-> IF threw THEN st
                 ELSE [st EXCEPT ![target].rules = Append(@, row)]]

(* what the callers below record *)
ScopedInputs == {in \in LearningInputs : in.context # CtxA}

(* a caller of recordLearning that names the scope or leaves it out *)
RecordLearningScoped ==
  \E in \in ScopedInputs, scope \in ScopeArgs, f \in FailuresAt({"embed"}) :
    \E r \in {RecordLearningResult(in, RecordLearningScope(scope), f)} :
       /\ r.outcome = "stored" => Len(stores[r.target].learnings) < MaxLearnings
       /\ stores' = r.stores
       /\ embeddingCache' = r.cache
       /\ lastIndex' = r.lastIndex
       /\ last' = [op |-> "recordLearning", content |-> in.content, context |-> in.context,
                   scope |-> scope, target |-> r.target, hash |-> r.hash,
                   outcome |-> r.outcome, generated |-> r.generated]
       /\ UNCHANGED <<lastCleanupTimeOther, inFlight, hasProject, lastCleanupTime,
                      initError, now, ticks, surfaced, applied>>

(* a caller of addGoldenRule that names the scope or leaves it out *)
AddGoldenRuleScoped ==
  \E content \in RuleContents, scope \in ScopeArgs, f \in FailuresAt({"embed"}) :
    \E r \in {AddGoldenRuleResult(stores, embeddingCache, content,
                                  AddGoldenRuleScope(scope), now, f)} :
       /\ ~r.threw => Len(stores[r.target].rules) < MaxRules
       /\ stores' = r.stores
       /\ embeddingCache' = r.cache
       /\ last' = [op |-> "addGoldenRule", content |-> content, scope |-> scope,
                   target |-> r.target,
                   outcome |-> IF r.threw THEN "threw" ELSE "stored"]
       /\ UNCHANGED <<lastCleanupTimeOther, inFlight, hasProject, lastIndex,
                      lastCleanupTime, initError, now, ticks, surfaced, applied>>

NextWrites ==
  \/ RecordLearningScoped
  \/ AddGoldenRuleScoped

SpecWrites == InitReady /\ [][NextWrites]_vars

----------------------------------------------------------------------------
(* The project root *)

(* A directory is the sequence of the names on its absolute path; the      *)
(* working directory that the plugin, the scripts and the tests pass is    *)
(* process.cwd() or the directory the host names.                          *)
Root == <<>>
Names == {"home", "proj"}
Directories == UNION {[1..n -> Names] : n \in 0..MaxDepth}
Markers == {".git", ".opencode"}

(* the directories from dir up to the root *)
Ancestors(dir) == {SubSeq(dir, 1, n) : n \in 0..Len(dir)}

(* a walk that goes from any directory straight to the root *)
ParentDirIsRoot(dir) == Root

(* join(currentDir, "..") *)
ParentDir(dir) == IF dir = Root THEN Root ELSE SubSeq(dir, 1, Len(dir) - 1)

NotFound == [found |-> FALSE, dir |-> Root]
Found(dir) == [found |-> TRUE, dir |-> dir]

(* findProjectRoot(startDir) is called on a file system in which the       *)
(* directory d holds the entries entries[d]                                *)
InitProjectRoot ==
  /\ stores = [s \in Scopes |-> EmptyStore]
  /\ hasProject = FALSE
  /\ embeddingCache = <<>>
  /\ lastIndex = 0
  /\ lastCleanupTime = 0
  /\ lastCleanupTimeOther = 0
  /\ initError = FALSE
  /\ now = StartTime
  /\ ticks = 0
  /\ inFlight = <<>>
  /\ surfaced = {}
  /\ applied = <<>>
  /\ \E startDir \in Directories :
     \E entries \in [Ancestors(startDir) -> SUBSET Markers] :
       last = [op |-> "findProjectRoot", startDir |-> startDir, entries |-> entries,
               currentDir |-> startDir, iterations |-> 0, returned |-> FALSE,
               result |-> NotFound]

(* one evaluation of the loop condition of findProjectRoot and, when it    *)
(* holds, one run of the loop body                                         *)
FindProjectRootStep ==
  /\ last.op = "findProjectRoot"
  /\ ~last.returned
  /\ \E currentDir \in {last.currentDir} : \E parentDir \in {ParentDir(last.currentDir)} :
       last' = IF currentDir = Root
               THEN [last EXCEPT !.returned = TRUE]
               ELSE IF \/ ".git" \in last.entries[currentDir]
                       \/ ".opencode" \in last.entries[currentDir]
               THEN [last EXCEPT !.returned = TRUE, !.result = Found(currentDir),
                                 !.iterations = @ + 1]
               ELSE IF parentDir = currentDir
               THEN [last EXCEPT !.returned = TRUE, !.iterations = @ + 1]
               ELSE [last EXCEPT !.currentDir = parentDir, !.iterations = @ + 1]
  /\ UNCHANGED <<stores, hasProject, embeddingCache, lastIndex, lastCleanupTime,
                 lastCleanupTimeOther, initError, now, ticks, inFlight, surfaced,
                 applied>>

NextProjectRoot == FindProjectRootStep

(* the loop is synchronous code: it keeps running until it returns *)
SpecProjectRoot ==
  InitProjectRoot /\ [][NextProjectRoot]_vars /\ WF_vars(FindProjectRootStep)

----------------------------------------------------------------------------
(* Similarity *)

(* the vectors that cosineSimilarity is given, the zero vector among them *)
Vectors == [1..2 -> 0..MaxCoordinate]

InitSimilarity ==
  /\ stores = [s \in Scopes |-> EmptyStore]
  /\ hasProject = FALSE
  /\ embeddingCache = <<>>
  /\ lastIndex = 0
  /\ lastCleanupTime = 0
  /\ lastCleanupTimeOther = 0
  /\ initError = FALSE
  /\ now = StartTime
  /\ ticks = 0
  /\ inFlight = <<>>
  /\ surfaced = {}
  /\ applied = <<>>
  /\ \E a \in Vectors, b \in Vectors : last = [op |-> "vectors", a |-> a, b |-> b]

(* embeddingService.cosineSimilarity(a, b) *)
CosineSimilarityCall ==
  /\ last.op = "vectors"
  /\ last' = [op |-> "cosineSimilarity", a |-> last.a, b |-> last.b,
              similarity |-> CosineSimilarity(last.a, last.b)]
  /\ UNCHANGED <<stores, hasProject, embeddingCache, lastIndex, lastCleanupTime,
                 lastCleanupTimeOther, initError, now, ticks, inFlight, surfaced,
                 applied>>

NextSimilarity == CosineSimilarityCall

SpecSimilarity == InitSimilarity /\ [][NextSimilarity]_vars

----------------------------------------------------------------------------
(* Heuristic patterns *)

(* The engine started on stores that hold heuristics: up to MaxPatterns a  *)
(* store, with patterns that match the prompt, in another case too, that   *)
(* do not match it, and that do not compile.                               *)
StoredPatterns == {"build", "Build", "docker", "("}

StoredHeuristic(pattern) ==
  [id |-> Sha(<<pattern, <<"run", "make">>>>), pattern |-> pattern,
   suggestion |-> <<"run", "make">>, created_at |-> StartTime - DAY]

StoredHeuristics ==
  {[k \in 1..Len(ps) |-> StoredHeuristic(ps[k])] :
     ps \in {qs \in SeqsUpTo(StoredPatterns, MaxPatterns) :
               \A i, j \in 1..Len(qs) : qs[i] = qs[j] => i = j}}

InitPatterns ==
  /\ hasProject \in BOOLEAN
  /\ \E g \in StoredHeuristics, p \in (IF hasProject THEN StoredHeuristics ELSE {<<>>}) :
       stores = [s \in Scopes |->
                   [EmptyStore EXCEPT !.heuristics = IF s = "global" THEN g ELSE p]]
  /\ embeddingCache = <<>>
  /\ lastIndex = 0
  /\ lastCleanupTime = 0
  /\ lastCleanupTimeOther = 0
  /\ initError = FALSE
  /\ now = StartTime
  /\ ticks = 0
  /\ inFlight = <<>>
  /\ surfaced = {}
  /\ applied = <<>>
  /\ last = [op |-> "none"]

NextPatterns == GetContextCall

SpecPatterns == InitPatterns /\ [][NextPatterns]_vars

----------------------------------------------------------------------------
(* The event hook *)

(* The events the host sends: a text that is absent is <<>>, the payload   *)
(* of a tool.execute.after event is {tool, result: {stderr, error,         *)
(* exitCode}, args: {command}}.                                            *)
ToolEvent(tool, stderr, exitCode) ==
  [type |-> "tool.execute.after", tool |-> tool, stderr |-> stderr, error |-> <<>>,
   exitCode |-> exitCode, command |-> <<"make">>]

Events ==
  { ToolEvent(<<"bash">>, <<"build", "failed">>, 1),
    ToolEvent(<<"bash">>, <<"build", "failed">>, 130),
    ToolEvent(<<"bash">>, <<>>, 0),
    ToolEvent(<<"bash">>, <<>>, 2),
    ToolEvent(<<>>, <<"build", "failed">>, 1),
    ToolEvent(<<"bash">>, LPrivate, 1),
    [ToolEvent(<<"bash">>, <<"build", "failed">>, 1) EXCEPT !.type = "session.idle"] }

(* stderr || error || (exitCode !== undefined && exitCode !== 0) *)
HasError(event) == event.stderr # <<>> \/ event.error # <<>> \/ event.exitCode # 0

(* stderr || error || `Exit Code ${exitCode}` *)
ErrorDetail(event) ==
  IF event.stderr # <<>> THEN event.stderr
  ELSE IF event.error # <<>> THEN event.error
  ELSE <<"Exit", "Code", ToString(event.exitCode)>>

(* `Tool '${toolName}' failed running '${commandContext}': ${errorDetail}` *)
LearningContent(event) ==
  <<"Tool">> \o event.tool \o <<"failed">>
  \o (IF event.command # <<>> THEN <<"running">> \o event.command ELSE <<>>)
  \o <<":">> \o ErrorDetail(event)

(* JSON.stringify({ args, result }) *)
FullContext(event) ==
  <<"args", "command">> \o event.command
  \o <<"result", "stderr">> \o event.stderr \o <<"error">> \o event.error
  \o <<"exitCode", ToString(event.exitCode)>>

(* the event hook on event; recordLearning is called without a scope *)
EventHookResult(event, f) ==
  LET in == [content |-> LearningContent(event), category |-> "failure",
             context |-> FullContext(event)]
      r == RecordLearningResult(in, RecordLearningScope(Undefined), f)
      untouched == [raised |-> FALSE, failed |-> "", recorded |-> "none",
                    target |-> "global", stores |-> stores, cache |-> embeddingCache,
                    lastIndex |-> lastIndex]
  IN IF initError THEN Caught(untouched, "init")
     ELSE IF event.type # "tool.execute.after" THEN untouched
     ELSE IF event.tool = <<>> THEN untouched
     ELSE IF ~HasError(event) THEN untouched
     ELSE IF event.exitCode = 130 THEN untouched
     ELSE IF r.outcome = "threw"
     THEN Caught([untouched EXCEPT !.stores = r.stores, !.cache = r.cache,
                                   !.lastIndex = r.lastIndex, !.target = r.target],
                 IF f.stage = "embed" THEN "embed" ELSE "insert")
     ELSE [untouched EXCEPT !.stores = r.stores, !.cache = r.cache,
                            !.lastIndex = r.lastIndex, !.target = r.target,
                            !.recorded = r.outcome]

EventHook ==
  \E event \in Events, f \in FailuresAt({"embed"}) :
    \E r \in {EventHookResult(event, f)} :
       /\ r.recorded = "stored" => Len(stores[r.target].learnings) < MaxLearnings
       /\ stores' = r.stores
       /\ embeddingCache' = r.cache
       /\ lastIndex' = r.lastIndex
       /\ last' = [op |-> "event", event |-> event, failed |-> r.failed,
                   raised |-> r.raised, recorded |-> r.recorded, target |-> r.target]
       /\ UNCHANGED <<lastCleanupTimeOther, inFlight, hasProject, lastCleanupTime,
                      initError, now, ticks, surfaced, applied>>

NextEvents ==
  \/ Tick
  \/ EventHook

SpecEvents == Init /\ [][NextEvents]_vars

----------------------------------------------------------------------------
(* Initialization and the default data *)

DEFAULT_RULES ==
  << <<"validate", "user", "inputs">>,
     <<"use", "strict", "mode">>,
     <<"write", "tests">>,
     <<"document", "complex", "algorithms">>,
     <<"handle", "errors", "gracefully">>,
     <<"use", "environment", "variables">>,
     <<"least", "privilege">>,
     <<"keep", "dependencies", "up", "to", "date">>,
     <<"use", "descriptive", "names">>,
     <<"avoid", "premature", "optimization">> >>

DefaultHeuristic(pattern, suggestion) == [pattern |-> pattern, suggestion |-> suggestion]

DEFAULT_HEURISTICS ==
  << DefaultHeuristic("npm install", <<"ensure", "package.json", "exists">>),
     DefaultHeuristic("npm.*ERR.*ENOENT.*package\\.json", <<"missing", "package.json">>),
     DefaultHeuristic("git commit", <<"check", "files", "are", "staged">>),
     DefaultHeuristic("git push.*rejected", <<"pull", "latest", "changes">>),
     DefaultHeuristic("docker.*not found", <<"ensure", "docker", "is", "running">>),
     DefaultHeuristic("permission denied", <<"check", "file", "permissions">>),
     DefaultHeuristic("port.*already in use", <<"check", "processes", "using", "the", "port">>),
     DefaultHeuristic("cannot find module", <<"install", "dependencies">>),
     DefaultHeuristic("typescript.*error TS", <<"run", "tsc">>),
     DefaultHeuristic("test.*fail", <<"review", "test", "output">>) >>

(* a test that looks at the rules alone *)
IsDatabaseEmptyOfRules(db) == Len(db.rules) = 0

(* rulesCount === 0 && heuristicsCount === 0 *)
IsDatabaseEmpty(db) == Len(db.rules) = 0 /\ Len(db.heuristics) = 0

(* seedGoldenRules from rule k on: addGoldenRule(rule) with the default    *)
(* scope; the call for rule failAt throws and ends the loop                *)
RECURSIVE SeedGoldenRulesFrom(_, _, _, _, _)
SeedGoldenRulesFrom(k, st, cache, t, failAt) ==
  IF k > Len(DEFAULT_RULES) THEN [threw |-> FALSE, stores |-> st, cache |-> cache]
  ELSE LET r == AddGoldenRuleResult(st, cache, DEFAULT_RULES[k],
                                    AddGoldenRuleScope(Undefined), t,
                                    IF k = failAt THEN Failure("embed", "global")
                                    ELSE NoFailure)
       IN IF r.threw THEN [threw |-> TRUE, stores |-> r.stores, cache |-> r.cache]
          ELSE SeedGoldenRulesFrom(k + 1, r.stores, r.cache, t, failAt)

SeedGoldenRules(st, cache, t, failAt) == SeedGoldenRulesFrom(1, st, cache, t, failAt)

(* seedHeuristics from heuristic k on: INSERT OR IGNORE of the row with    *)
(* the id sha256(pattern + suggestion); the insert of heuristic failAt     *)
(* throws and ends the loop                                                *)
RECURSIVE SeedHeuristicsFrom(_, _, _, _)
SeedHeuristicsFrom(k, db, t, failAt) ==
  IF k > Len(DEFAULT_HEURISTICS) THEN [threw |-> FALSE, db |-> db]
  ELSE IF k = failAt THEN [threw |-> TRUE, db |-> db]
  ELSE LET h == DEFAULT_HEURISTICS[k]
           id == Sha(<<h.pattern, h.suggestion>>)
           row == [id |-> id, pattern |-> h.pattern, suggestion |-> h.suggestion,
                   created_at |-> t]
       IN SeedHeuristicsFrom(k + 1,
                             IF \E x \in Range(db.heuristics) : x.id = id THEN db
                             ELSE [db EXCEPT !.heuristics = Append(@, row)],
                             t, failAt)

SeedHeuristics(db, t, failAt) == SeedHeuristicsFrom(1, db, t, failAt)

(* a backfill that gives every learning a row in learnings_fts *)
BackfillFTSOfEveryLearning(db) == [db EXCEPT !.fts = @ \o FtsOf(db.learnings)]

(* backfillFTS: the learnings without a row in learnings_fts get one *)
BackfillFTS(db) ==
  LET indexed == {e.id : e \in Range(db.fts)}
  IN [db EXCEPT !.fts = @ \o FtsOf(SelectSeq(db.learnings, LAMBDA l : l.id \notin indexed))]

(* Where an initialization fails: "load" is embeddingService.init(),       *)
(* "rules" the addGoldenRule of default rule at, "heuristics" the insert   *)
(* of default heuristic at.                                                *)
InitFailure(stage, at) == [stage |-> stage, at |-> at]

InitFailures ==
  { InitFailure("none", 0), InitFailure("load", 0),
    InitFailure("rules", 1), InitFailure("rules", 4),
    InitFailure("heuristics", 1), InitFailure("heuristics", 4) }

(* the body of initPromise at clock t in a new process *)
InitPromise(st, t, fail) ==
  LET isEmpty == IsDatabaseEmpty(st["global"])
      rules == SeedGoldenRules(st, <<>>, t, IF fail.stage = "rules" THEN fail.at ELSE 0)
      heuristics == SeedHeuristics(rules.stores["global"], t,
                                   IF fail.stage = "heuristics" THEN fail.at ELSE 0)
      seeded == [rules.stores EXCEPT !["global"] = heuristics.db]
      backfilled(x) == [s \in Scopes |->
                          IF s = "global" \/ hasProject THEN BackfillFTS(x[s]) ELSE x[s]]
  IN IF fail.stage = "load"
     THEN [threw |-> TRUE, isEmpty |-> isEmpty, stores |-> st, cache |-> <<>>]
     ELSE IF ~isEmpty
     THEN [threw |-> FALSE, isEmpty |-> isEmpty, stores |-> backfilled(st), cache |-> <<>>]
     ELSE IF rules.threw
     THEN [threw |-> TRUE, isEmpty |-> isEmpty, stores |-> rules.stores,
           cache |-> rules.cache]
     ELSE IF heuristics.threw
     THEN [threw |-> TRUE, isEmpty |-> isEmpty, stores |-> seeded, cache |-> rules.cache]
     ELSE [threw |-> FALSE, isEmpty |-> isEmpty, stores |-> backfilled(seeded),
           cache |-> rules.cache]

(* The host starts, or starts again, and the plugin initializes: the       *)
(* databases stay, the state of the process is new.                        *)
Initialize ==
  \E fail \in InitFailures :
    \E r \in {InitPromise(stores, now, fail)} :
       /\ stores' = r.stores
       /\ embeddingCache' = r.cache
       /\ initError' = r.threw
       /\ lastIndex' = 0
       /\ lastCleanupTime' = 0
       /\ lastCleanupTimeOther' = 0
       /\ inFlight' = <<>>
       /\ surfaced' = {}
       /\ applied' = <<>>
       /\ last' = [op |-> "initialize", isEmpty |-> r.isEmpty, fail |-> fail,
                   outcome |-> IF r.threw THEN "threw" ELSE "ready"]
       /\ UNCHANGED <<hasProject, now, ticks>>

(* What the global database holds when the host first starts the plugin:   *)
(* nothing, or what the scripts and earlier sessions have left in it.      *)
GlobalStoresAtStart ==
  { EmptyStore,
    [EmptyStore EXCEPT !.learnings = <<AgedLearning(1)>>,
                       !.fts = FtsOf(<<AgedLearning(1)>>)],
    [EmptyStore EXCEPT !.learnings = <<AgedLearning(1)>>],
    [EmptyStore EXCEPT !.rules = <<AgedRule(1, 0)>>],
    [EmptyStore EXCEPT !.heuristics = <<AgedHeuristic(1)>>] }

InitSeeding ==
  /\ stores \in {[s \in Scopes |-> IF s = "global" THEN g ELSE EmptyStore] :
                   g \in GlobalStoresAtStart}
  /\ hasProject \in BOOLEAN
  /\ embeddingCache = <<>>
  /\ lastIndex = 0
  /\ lastCleanupTime = 0
  /\ lastCleanupTimeOther = 0
  /\ initError = FALSE
  /\ now = StartTime
  /\ ticks = 0
  /\ inFlight = <<>>
  /\ surfaced = {}
  /\ applied = <<>>
  /\ last = [op |-> "none"]

NextSeeding ==
  \/ Tick
  \/ Initialize

SpecSeeding == InitSeeding /\ [][NextSeeding]_vars

----------------------------------------------------------------------------
(* A retrieval, await by await, with a cleanup in between *)

(* a lookup that answers from the index entry, whether the row is there or *)
(* not                                                                     *)
LookupLearningFromIndex(db, e) ==
  <<[id |-> e.id, content |-> e.content, category |-> e.category, embedding |-> <<>>,
     created_at |-> 0, context_hash |-> <<>>]>>

(* SELECT * FROM learnings WHERE id = ?, for the id of the index entry e *)
LookupLearning(db, e) == SelectSeq(db.learnings, LAMBDA l : l.id = e.id)

(* SELECT ... FROM learnings_fts WHERE learnings_fts MATCH ? LIMIT 10 *)
MatchFts(db, escapedQuery) ==
  Take(SelectSeq(db.fts, LAMBDA e : FtsMatch(e.content, escapedQuery)), FTS_LIMIT)

Searching == last.op = "searchHybrid" /\ last.stage = "searching"

(* searchHybrid(query) up to its first await: searchLearnings and          *)
(* searchFTS have been started                                             *)
SearchHybridStart ==
  \E query \in Prompts :
    /\ ~Searching
    /\ last' = [op |-> "searchHybrid", stage |-> "searching", query |-> query,
                vectorDone |-> FALSE, vectorResults |-> <<>>,
                client |-> IF EscapeQuery(query) = <<>> THEN Len(Clients) + 1 ELSE 1,
                matchDone |-> FALSE, matched |-> <<>>, ftsResults |-> <<>>,
                gone |-> {}, missed |-> {}, hybrid |-> <<>>]
    /\ UNCHANGED <<lastCleanupTimeOther, inFlight, stores, hasProject, embeddingCache,
                   lastIndex, lastCleanupTime, initError, now, ticks, surfaced, applied>>

(* searchLearnings reads the learnings of the stores and returns *)
SearchLearningsReturns ==
  /\ Searching
  /\ ~last.vectorDone
  /\ \E gen \in {Generate(embeddingCache, last.query, now, FALSE)} :
       /\ embeddingCache' = gen.cache
       /\ last' = [last EXCEPT !.vectorDone = TRUE,
                               !.vectorResults =
                                  SearchLearnings(stores, gen.embedding, NoFailure).rows]
  /\ UNCHANGED <<lastCleanupTimeOther, inFlight, stores, hasProject, lastIndex,
                 lastCleanupTime, initError, now, ticks, surfaced, applied>>

(* searchFTS: the MATCH query on the client in turn returns *)
SearchFTSMatch ==
  /\ Searching
  /\ last.client <= Len(Clients)
  /\ ~last.matchDone
  /\ \E matched \in {MatchFts(stores[Clients[last.client]], EscapeQuery(last.query))} :
       last' = IF matched = <<>>
               THEN [last EXCEPT !.client = @ + 1]
               ELSE [last EXCEPT !.matchDone = TRUE, !.matched = matched]
  /\ UNCHANGED <<lastCleanupTimeOther, inFlight, stores, hasProject, embeddingCache,
                 lastIndex, lastCleanupTime, initError, now, ticks, surfaced, applied>>

(* searchFTS: the lookup of the row of the next matched entry returns *)
SearchFTSLookup ==
  /\ Searching
  /\ last.matchDone
  /\ \E rows \in {LookupLearning(stores[Clients[last.client]], Head(last.matched))} :
       LET scope == ClientScopes[last.client]
           pushed == IF Len(rows) > 0
                     THEN Append(last.ftsResults,
                                 [item |-> WithScope(rows[1], scope), score |-> FTS_SCORE])
                     ELSE last.ftsResults
           missed == IF Len(rows) > 0 THEN last.missed
                     ELSE last.missed \cup {<<scope, Head(last.matched).id>>}
           rest == Tail(last.matched)
       IN last' = [last EXCEPT !.ftsResults = pushed, !.missed = missed,
                               !.matched = rest,
                               !.matchDone = rest # <<>>,
                               !.client = IF rest = <<>> THEN @ + 1 ELSE @]
  /\ UNCHANGED <<lastCleanupTimeOther, inFlight, stores, hasProject, embeddingCache,
                 lastIndex, lastCleanupTime, initError, now, ticks, surfaced, applied>>

(* both searches have returned: merge, sort, slice *)
SearchHybridReturns ==
  /\ Searching
  /\ last.vectorDone
  /\ last.client > Len(Clients)
  /\ last' = [last EXCEPT !.stage = "returned",
                          !.hybrid = MergeHybrid(last.vectorResults, last.ftsResults)]
  /\ UNCHANGED <<lastCleanupTimeOther, inFlight, stores, hasProject, embeddingCache,
                 lastIndex, lastCleanupTime, initError, now, ticks, surfaced, applied>>

(* cleanupExpiredData(db), of a getContext call that runs at the same time *)
(* or of another process, on the database of one store                     *)
CleanupDuringSearch ==
  /\ Searching
  /\ \E s \in Range(Clients) :
       \E r \in {CleanupExpiredData(stores[s], now)} :
         /\ r.db # stores[s]
         /\ stores' = [stores EXCEPT ![s] = r.db]
         /\ last' = [last EXCEPT !.gone = @ \cup {<<s, l.id>> : l \in
                                   {x \in Range(stores[s].learnings) :
                                      x \notin Range(r.db.learnings)}}]
  /\ UNCHANGED <<lastCleanupTimeOther, inFlight, hasProject, embeddingCache, lastIndex,
                 lastCleanupTime, initError, now, ticks, surfaced, applied>>

(* learnings of two texts and several ages, in the order of their insertion *)
SearchedLearnings ==
  <<AgedLearning(LEARNING_EXPIRATION_DAYS + 2),
    [AgedLearning(LEARNING_EXPIRATION_DAYS + 1) EXCEPT
       !.content = LError, !.embedding = Embed(LError),
       !.id = Sha(<<LError, StartTime - (LEARNING_EXPIRATION_DAYS + 1) * DAY>>)],
    AgedLearning(1)>>

InitRetrieval ==
  /\ hasProject \in BOOLEAN
  /\ \E g, p \in SUBSET (1..Len(SearchedLearnings)) :
       /\ ~hasProject => p = {}
       /\ stores = [s \in Scopes |->
                      LET learnings == RowsAt(SearchedLearnings, IF s = "global" THEN g ELSE p)
                      IN [EmptyStore EXCEPT !.learnings = learnings,
                                            !.fts = FtsOf(learnings)]]
  /\ embeddingCache = <<>>
  /\ lastIndex = 0
  /\ lastCleanupTime = 0
  /\ lastCleanupTimeOther = 0
  /\ initError = FALSE
  /\ now = StartTime
  /\ ticks = 0
  /\ inFlight = <<>>
  /\ surfaced = {}
  /\ applied = <<>>
  /\ last = [op |-> "none"]

NextRetrieval ==
  \/ SearchHybridStart
  \/ SearchLearningsReturns
  \/ SearchFTSMatch
  \/ SearchFTSLookup
  \/ SearchHybridReturns
  \/ CleanupDuringSearch

SpecRetrieval == InitRetrieval /\ [][NextRetrieval]_vars

----------------------------------------------------------------------------
(* recordLearning calls that overlap *)

(* the calls that have passed the duplicate check and await the embedding  *)
(* or the INSERT                                                           *)
Pending == IF last.op = "recordLearning.calls" THEN last.pending ELSE <<>>

(* the payload CtxA with either content *)
OverlappingInputs == {in \in LearningInputs : in.context = CtxA}

(* recordLearning(content, category, context) from its call to the result  *)
(* of SELECT id FROM learnings WHERE context_hash = ?                      *)
RecordLearningSelects ==
  \E in \in OverlappingInputs, scope \in ScopeArgs :
    LET inContent == ContainsPrivateTag(in.content, lastIndex)
        inContext == ContainsPrivateTag(in.context, inContent.lastIndex)
        sanitizedContent == StripPrivateContent(in.content)
        contextHash == Sha(StripPrivateContent(in.context))
        target == TargetStore(RecordLearningScope(scope))
        call == [content |-> sanitizedContent, category |-> in.category,
                 hash |-> contextHash, target |-> target]
        private == inContent.found \/ inContext.found
        existing == AlreadyRecorded(stores[target], contextHash)
    IN /\ Len(Pending) < MaxInFlight
       /\ lastIndex' = IF inContent.found THEN inContent.lastIndex
                       ELSE inContext.lastIndex
       /\ last' = [op |-> "recordLearning.calls",
                   pending |-> IF private \/ existing THEN Pending
                               ELSE Append(Pending, call),
                   step |-> IF private THEN "private"
                            ELSE IF existing THEN "duplicate" ELSE "selected"]
       /\ UNCHANGED <<lastCleanupTimeOther, inFlight, stores, hasProject, embeddingCache,
                      lastCleanupTime, initError, now, ticks, surfaced, applied>>

(* a pending call from the return of generate to the end of its INSERT; an *)
(* id that the table holds already violates the primary key                *)
RecordLearningInserts ==
  \E i \in 1..Len(Pending) :
    LET call == Pending[i]
        gen == Generate(embeddingCache, call.content, now, FALSE)
        id == Sha(<<call.content, now>>)
        row == [id |-> id, content |-> call.content, category |-> call.category,
                embedding |-> gen.embedding, created_at |-> now,
                context_hash |-> call.hash]
        threw == \E l \in Range(stores[call.target].learnings) : l.id = id
    IN /\ ~threw => Len(stores[call.target].learnings) < MaxLearnings
       /\ embeddingCache' = gen.cache
       /\ stores' = IF threw THEN stores
                    ELSE [stores EXCEPT
                            ![call.target].learnings = Append(@, row),
                            ![call.target].fts = Append(@, [id |-> id,
                                                            content |-> call.content,
                                                            category |-> call.category])]
       /\ last' = [op |-> "recordLearning.calls", pending |-> WithoutCall(Pending, i),
                   step |-> IF threw THEN "threw" ELSE "stored"]
       /\ UNCHANGED <<lastCleanupTimeOther, inFlight, hasProject, lastIndex,
                      lastCleanupTime, initError, now, ticks, surfaced, applied>>

(* Date.now() moves on while calls are pending *)
ClockMoves ==
  /\ Pending # <<>>
  /\ ticks < MaxTicks
  /\ now' = now + 1
  /\ ticks' = ticks + 1
  /\ UNCHANGED <<lastCleanupTimeOther, inFlight, stores, hasProject, embeddingCache,
                 lastIndex, lastCleanupTime, initError, surfaced, applied, last>>

NextOverlap ==
  \/ RecordLearningSelects
  \/ RecordLearningInserts
  \/ ClockMoves

SpecOverlap == InitReady /\ [][NextOverlap]_vars

----------------------------------------------------------------------------
(* recordLearning on texts with privacy tags of either case *)

LUpper == <<"key", "<PRIVATE>", "secret", "</PRIVATE>">>
CtxUpper == <<"out", "<PRIVATE>", "secret", "</PRIVATE>">>

TaggedInputs ==
  { [content |-> LUpper,   category |-> "failure", context |-> CtxA],
    [content |-> LBuild,   category |-> "failure", context |-> CtxUpper],
    [content |-> LPrivate, category |-> "failure", context |-> CtxB],
    [content |-> LBuild,   category |-> "failure", context |-> CtxB] }

RecordLearningTagged ==
  \E in \in TaggedInputs, scope \in Scopes :
    \E r \in {RecordLearningResult(in, scope, NoFailure)} :
       /\ r.outcome = "stored" => Len(stores[r.target].learnings) < MaxLearnings
       /\ stores' = r.stores
       /\ embeddingCache' = r.cache
       /\ lastIndex' = r.lastIndex
       /\ last' = [op |-> "recordLearning", content |-> in.content, context |-> in.context,
                   target |-> r.target, hash |-> r.hash, outcome |-> r.outcome,
                   generated |-> r.generated, before |-> lastIndex]
       /\ UNCHANGED <<lastCleanupTimeOther, inFlight, hasProject, lastCleanupTime,
                      initError, now, ticks, surfaced, applied>>

NextPrivacy ==
  \/ Tick
  \/ RecordLearningTagged

SpecPrivacy == InitReady /\ [][NextPrivacy]_vars

----------------------------------------------------------------------------
(* One QueryService on stores that hold expired learnings *)

InitThrottle ==
  /\ hasProject \in BOOLEAN
  /\ \E g, p \in {<<>>, <<AgedLearning(LEARNING_EXPIRATION_DAYS + 1)>>,
                  <<AgedLearning(LEARNING_EXPIRATION_DAYS + 1), AgedLearning(1)>>} :
       /\ ~hasProject => p = <<>>
       /\ stores = [s \in Scopes |->
                      LET learnings == IF s = "global" THEN g ELSE p
                      IN [EmptyStore EXCEPT !.learnings = learnings,
                                            !.fts = FtsOf(learnings)]]
  /\ embeddingCache = <<>>
  /\ lastIndex = 0
  /\ lastCleanupTime = 0
  /\ lastCleanupTimeOther = 0
  /\ initError = FALSE
  /\ now = StartTime
  /\ ticks = 0
  /\ inFlight = <<>>
  /\ surfaced = {}
  /\ applied = <<>>
  /\ last = [op |-> "none"]

NextThrottle ==
  \/ Tick
  \/ GetContextCall

SpecThrottle == InitThrottle /\ [][NextThrottle]_vars

----------------------------------------------------------------------------
(* Rules that are surfaced and grow old *)

InitExpiry ==
  /\ hasProject = FALSE
  /\ \E g \in {{1, 2, 3}, {2, 3, 4}, {3}} :
       stores = [s \in Scopes |->
                   IF s = "global" THEN [EmptyStore EXCEPT !.rules = RowsAt(AgedRules, g)]
                   ELSE EmptyStore]
  /\ embeddingCache = <<>>
  /\ lastIndex = 0
  /\ lastCleanupTime = 0
  /\ lastCleanupTimeOther = 0
  /\ initError = FALSE
  /\ now = StartTime
  /\ ticks = 0
  /\ inFlight = <<>>
  /\ surfaced = {}
  /\ applied = <<>>
  /\ last = [op |-> "none"]

NextExpiry ==
  \/ Tick
  \/ ChatParams
  \/ RunCleanup

SpecExpiry == InitExpiry /\ [][NextExpiry]_vars

----------------------------------------------------------------------------
(* The elf tool *)

(* the clients of a list mode for the scope argument *)
ListClients(scope) ==
  IF scope = "global" THEN <<"global">>
  ELSE IF scope = "project" /\ hasProject THEN <<"project">>
  ELSE Clients

(* const dbScope = scope || (i === 0 ? "global" : "project") *)
DbScope(scope, i) ==
  IF scope # Undefined THEN scope ELSE IF i = 1 THEN "global" ELSE "project"

(* mode "list-rules": the rules of each client by hit_count, each labelled *)
(* with dbScope                                                            *)
ListRules(st, scope) ==
  Flat([i \in 1..Len(ListClients(scope)) |->
          LET rows == RulesByHits(st[ListClients(scope)[i]])
          IN [k \in 1..Len(rows) |->
                [id |-> rows[k].id, content |-> rows[k].content,
                 hitCount |-> rows[k].hit_count, scope |-> DbScope(scope, i)]]])

(* mode "list-heuristics": the heuristics of each client, newest first *)
ListHeuristics(st, scope) ==
  Flat([i \in 1..Len(ListClients(scope)) |->
          LET all == st[ListClients(scope)[i]].heuristics
              rows == StableSort(all, [p \in Range(all) \X Range(all) |->
                                         p[2].created_at - p[1].created_at])
          IN [k \in 1..Len(rows) |->
                [id |-> rows[k].id, pattern |-> rows[k].pattern,
                 suggestion |-> rows[k].suggestion, created |-> rows[k].created_at,
                 scope |-> DbScope(scope, i)]]])

(* mode "list-learnings": the newest limit learnings of each client, then  *)
(* the newest limit of them all                                            *)
ListLearnings(st, scope, limit) ==
  LET allLearnings ==
        Flat([i \in 1..Len(ListClients(scope)) |->
                LET all == st[ListClients(scope)[i]].learnings
                    rows == Take(StableSort(all, [p \in Range(all) \X Range(all) |->
                                                    p[2].created_at - p[1].created_at]),
                                 limit)
                IN [k \in 1..Len(rows) |->
                      [id |-> rows[k].id, category |-> rows[k].category,
                       content |-> rows[k].content, created |-> rows[k].created_at,
                       scope |-> DbScope(scope, i)]]])
  IN Take(StableSort(allLearnings,
                     [p \in Range(allLearnings) \X Range(allLearnings) |->
                        p[2].created - p[1].created]),
          limit)

(* const scope = args.scope || "global" of the modes that add *)
AddScope(scope) == IF scope = Undefined THEN "global" ELSE scope

(* mode "add-heuristic": INSERT OR IGNORE into the database of the scope, *)
(* the global one when there is no project                                *)
AddHeuristicResult(st, pattern, suggestion, scope, t) ==
  LET target == TargetStore(AddScope(scope))
      id == Sha(<<pattern, suggestion>>)
      row == [id |-> id, pattern |-> pattern, suggestion |-> suggestion, created_at |-> t]
  IN IF \E h \in Range(st[target].heuristics) : h.id = id THEN st
     ELSE [st EXCEPT ![target].heuristics = Append(@, row)]

ListModes == {"list-rules", "list-heuristics", "list-learnings"}
AddModes == {"add-rule", "add-heuristic"}
LIST_LIMIT == 20

(* execute(args) of the elf tool for a list mode or an add mode; the       *)
(* result carries the items, or the scope of the message                   *)
ElfExecuteResult(mode, scope) ==
  LET rule == AddGoldenRuleResult(stores, embeddingCache, <<"check", "exit", "codes">>,
                                  AddScope(scope), now, NoFailure)
      same == [success |-> TRUE, items |-> <<>>, scope |-> "none", stores |-> stores,
               cache |-> embeddingCache]
  IN IF mode = "list-rules" THEN [same EXCEPT !.items = ListRules(stores, scope)]
     ELSE IF mode = "list-heuristics"
     THEN [same EXCEPT !.items = ListHeuristics(stores, scope)]
     ELSE IF mode = "list-learnings"
     THEN [same EXCEPT !.items = ListLearnings(stores, scope, LIST_LIMIT)]
     ELSE IF mode = "add-rule"
     THEN [same EXCEPT !.success = ~rule.threw, !.stores = rule.stores,
                       !.cache = rule.cache,
                       !.scope = IF rule.threw THEN "none" ELSE AddScope(scope)]
     ELSE [same EXCEPT !.stores = AddHeuristicResult(stores, "build", <<"run", "make">>,
                                                     scope, now),
                       !.scope = AddScope(scope)]

ElfExecute ==
  /\ ~initError
  /\ \E mode \in ListModes \cup AddModes, scope \in ScopeArgs :
     \E r \in {ElfExecuteResult(mode, scope)} :
       /\ \A s \in Scopes : /\ Len(r.stores[s].rules) <= MaxRules
                            /\ Len(r.stores[s].heuristics) <= MaxHeuristics + 1
       /\ stores' = r.stores
       /\ embeddingCache' = r.cache
       /\ last' = [op |-> "elf", mode |-> mode, scopeArg |-> scope,
                   success |-> r.success, items |-> r.items, scope |-> r.scope]
  /\ UNCHANGED <<hasProject, lastIndex, lastCleanupTime, lastCleanupTimeOther, initError,
                 now, ticks, inFlight, surfaced, applied>>

(* The tool on stores that hold rows of their own, in a directory with or  *)
(* without a project root                                                  *)
InitTool ==
  /\ hasProject \in BOOLEAN
  /\ \E r \in SUBSET {1, 4}, l \in SUBSET {1, 3}, h \in SUBSET {1} :
       stores = [s \in Scopes |->
                   IF s = "global"
                   THEN [rules |-> RowsAt(AgedRules, r),
                         learnings |-> RowsAt(AgedLearnings, l),
                         heuristics |-> RowsAt(AgedHeuristics, h),
                         fts |-> FtsOf(RowsAt(AgedLearnings, l))]
                   ELSE IF hasProject
                   THEN [rules |-> RowsAt(AgedRules, {2}),
                         learnings |-> RowsAt(AgedLearnings, {2}),
                         heuristics |-> RowsAt(AgedHeuristics, {2}),
                         fts |-> FtsOf(RowsAt(AgedLearnings, {2}))]
                   ELSE EmptyStore]
  /\ embeddingCache = <<>>
  /\ lastIndex = 0
  /\ lastCleanupTime = 0
  /\ lastCleanupTimeOther = 0
  /\ initError = FALSE
  /\ now = StartTime
  /\ ticks = 0
  /\ inFlight = <<>>
  /\ surfaced = {}
  /\ applied = <<>>
  /\ last = [op |-> "none"]

NextTool == ElfExecute

SpecTool == InitTool /\ [][NextTool]_vars

----------------------------------------------------------------------------
(* The plugin instance from its construction on: initPromise runs in the   *)
(* background, a stage at a time, while the host fires hooks               *)

InitStages == <<"schema", "load", "seed", "backfill">>
HookKinds == {"chat.params", "event", "tool"}

Plugin == last.op = "plugin"

(* ensureReady() at a stage of initPromise: it throws initError, or awaits *)
(* the promise, which has resolved, has rejected or is pending             *)
EnsureReadyOnErrorOnly(err, stage) == IF err THEN "throws" ELSE "returns"

EnsureReady(err, stage) ==
  IF err THEN "throws"
  ELSE IF stage = "ready" THEN "returns"
  ELSE IF stage = "failed" THEN "throws"
  ELSE "waits"

(* one stage of the body of initPromise; fail names the stage that throws  *)
InitPromiseStage(st, cache, stage, t, fail) ==
  LET rules == SeedGoldenRules(st, cache, t, IF fail.stage = "rules" THEN fail.at ELSE 0)
      heuristics == SeedHeuristics(rules.stores["global"], t,
                                   IF fail.stage = "heuristics" THEN fail.at ELSE 0)
      seeded == [rules.stores EXCEPT !["global"] = heuristics.db]
      same == [threw |-> FALSE, stores |-> st, cache |-> cache]
  IN IF stage = "schema" THEN [same EXCEPT !.threw = (fail.stage = "schema")]
     ELSE IF stage = "load" THEN [same EXCEPT !.threw = (fail.stage = "load")]
     ELSE IF stage = "seed"
     THEN IF ~IsDatabaseEmpty(st["global"]) THEN same
          ELSE IF rules.threw
          THEN [threw |-> TRUE, stores |-> rules.stores, cache |-> rules.cache]
          ELSE [threw |-> heuristics.threw, stores |-> seeded, cache |-> rules.cache]
     ELSE [same EXCEPT !.stores = [s \in Scopes |->
                                     IF s = "global" \/ hasProject THEN BackfillFTS(st[s])
                                     ELSE st[s]]]

StageFailures ==
  InitFailures \cup {InitFailure("schema", 0)}

(* the next await of initPromise completes; on a throw the catch block     *)
(* sets initError and the promise rejects                                  *)
InitPromiseStep ==
  /\ Plugin
  /\ last.stage \in Range(InitStages)
  /\ \E fail \in StageFailures :
     \E r \in {InitPromiseStage(stores, embeddingCache, last.stage, now, fail)} :
       /\ stores' = r.stores
       /\ embeddingCache' = r.cache
       /\ initError' = r.threw
       /\ last' = [last EXCEPT
                     !.done = Append(@, last.stage),
                     !.stage = IF r.threw THEN "failed"
                               ELSE IF last.stage = "schema" THEN "load"
                               ELSE IF last.stage = "load" THEN "seed"
                               ELSE IF last.stage = "seed" THEN "backfill"
                               ELSE "ready"]
  /\ UNCHANGED <<hasProject, lastIndex, lastCleanupTime, lastCleanupTimeOther, now, ticks,
                 inFlight, surfaced, applied>>

(* the host calls a hook: it reaches ensureReady(), which throws at once   *)
(* when initError is set and awaits initPromise otherwise                  *)
HookFires ==
  /\ Plugin
  /\ Len(last.waiting) + Len(last.touches) + last.thrown < MaxInFlight
  /\ \E kind \in HookKinds :
       last' = IF EnsureReady(initError, "pending") = "throws"
               THEN [last EXCEPT !.thrown = @ + 1]
               ELSE [last EXCEPT !.waiting = Append(@, [kind |-> kind,
                                                        firedAt |-> last.stage])]
  /\ UNCHANGED <<stores, hasProject, embeddingCache, lastIndex, lastCleanupTime,
                 lastCleanupTimeOther, initError, now, ticks, inFlight, surfaced, applied>>

(* what the process holds after the chat.params hook, and after the event *)
(* hook, has returned r                                                    *)
AfterChatParams(r) ==
  [stores |-> r.stores, cache |-> r.cache, lastIndex |-> lastIndex,
   lastCleanupTime |-> r.lastCleanupTime]

AfterEvent(r) ==
  [stores |-> r.stores, cache |-> r.cache, lastIndex |-> r.lastIndex,
   lastCleanupTime |-> lastCleanupTime]

(* what a hook does once ensureReady() has returned: chat.params retrieves *)
(* the context, event records the failure, the tool lists the rules        *)
HookBody(kind) ==
  IF kind = "chat.params"
  THEN AfterChatParams(ChatParamsResult(<<"build", "failed">>, <<"system">>,
                                        IF hasProject THEN <<1, 2>> ELSE <<1>>, NoFailure))
  ELSE IF kind = "event"
  THEN AfterEvent(EventHookResult(ToolEvent(<<"bash">>, <<"build", "failed">>, 1),
                                  NoFailure))
  ELSE [stores |-> stores, cache |-> embeddingCache, lastIndex |-> lastIndex,
        lastCleanupTime |-> lastCleanupTime]

(* the await in ensureReady() of the first waiting hook ends: the hook     *)
(* goes on to the stores, or the rejection is thrown into it               *)
HookResumes ==
  /\ Plugin
  /\ last.waiting # <<>>
  /\ \E outcome \in {EnsureReady(initError, last.stage)} :
     \E r \in {HookBody(Head(last.waiting).kind)} :
       /\ outcome # "waits"
       /\ IF outcome = "returns"
          THEN /\ stores' = r.stores
               /\ embeddingCache' = r.cache
               /\ lastIndex' = r.lastIndex
               /\ lastCleanupTime' = r.lastCleanupTime
               /\ last' = [last EXCEPT
                             !.waiting = Tail(@),
                             !.touches = Append(@, [kind |-> Head(last.waiting).kind,
                                                    firedAt |-> Head(last.waiting).firedAt,
                                                    stage |-> last.stage])]
          ELSE /\ last' = [last EXCEPT !.waiting = Tail(@), !.thrown = @ + 1]
               /\ UNCHANGED <<stores, embeddingCache, lastIndex, lastCleanupTime>>
  /\ UNCHANGED <<hasProject, lastCleanupTimeOther, initError, now, ticks, inFlight,
                 surfaced, applied>>

InitStartup ==
  /\ stores \in {[s \in Scopes |-> IF s = "global" THEN g ELSE EmptyStore] :
                   g \in GlobalStoresAtStart}
  /\ hasProject \in BOOLEAN
  /\ embeddingCache = <<>>
  /\ lastIndex = 0
  /\ lastCleanupTime = 0
  /\ lastCleanupTimeOther = 0
  /\ initError = FALSE
  /\ now = StartTime
  /\ ticks = 0
  /\ inFlight = <<>>
  /\ surfaced = {}
  /\ applied = <<>>
  /\ last = [op |-> "plugin", stage |-> "schema", done |-> <<>>, waiting |-> <<>>,
             touches |-> <<>>, thrown |-> 0]

NextStartup ==
  \/ InitPromiseStep
  \/ HookFires
  \/ HookResumes

(* when the next await of initPromise can complete, and when the first     *)
(* waiting hook can go on                                                  *)
InitPromiseStepEnabled == Plugin /\ last.stage \in Range(InitStages)

HookResumesEnabled ==
  Plugin /\ last.waiting # <<>> /\ EnsureReady(initError, last.stage) # "waits"

(* The awaits of initPromise complete and the event loop runs every        *)
(* continuation that is ready: weak fairness of InitPromiseStep and of     *)
(* HookResumes, written with their enabling conditions.                    *)
SpecStartup ==
  /\ InitStartup /\ [][NextStartup]_vars
  /\ ([]<>~InitPromiseStepEnabled \/ []<><<InitPromiseStep>>_vars)
  /\ ([]<>~HookResumesEnabled \/ []<><<HookResumes>>_vars)

----------------------------------------------------------------------------
(* The keyword index of a database that was created before the index was:  *)
(* initDatabase has added learnings_fts and its triggers, and the first    *)
(* backfillFTS of the plugin's initialization is still to run              *)

Opened == last.op = "opened"

(* backfillFTS(GLOBAL_DB_PATH) and, with a project, backfillFTS(project):  *)
(* the last stage of an initialization, of this plugin instance or of a    *)
(* later one on the same databases                                         *)
BackfillFTSRuns ==
  \E st \in {[s \in Scopes |-> IF s = "global" \/ hasProject THEN BackfillFTS(stores[s])
                              ELSE stores[s]]} :
    /\ stores' = st
    /\ last' = [op |-> "backfillFTS", first |-> Opened,
                added |-> SeqSum([i \in 1..Len(Clients) |->
                                    Len(st[Clients[i]].fts) - Len(stores[Clients[i]].fts)])]
    /\ UNCHANGED <<hasProject, embeddingCache, lastIndex, lastCleanupTime,
                   lastCleanupTimeOther, initError, now, ticks, inFlight, surfaced,
                   applied>>

(* the hooks wait for the initialization: learnings are recorded and       *)
(* cleanups run once the first backfill has run                            *)
RecordLearningIndexed == ~Opened /\ RecordLearning

CleanupIndexed == ~Opened /\ RunCleanup

InitIndex ==
  /\ hasProject \in BOOLEAN
  /\ \E l \in {{1}, {1, 3}}, g \in BOOLEAN, p \in BOOLEAN :
       stores = [s \in Scopes |->
                   IF s = "global"
                   THEN [EmptyStore EXCEPT
                           !.learnings = RowsAt(AgedLearnings, l),
                           !.fts = IF g THEN FtsOf(RowsAt(AgedLearnings, l)) ELSE <<>>]
                   ELSE IF hasProject
                   THEN [EmptyStore EXCEPT
                           !.learnings = RowsAt(AgedLearnings, {2}),
                           !.fts = IF p THEN FtsOf(RowsAt(AgedLearnings, {2})) ELSE <<>>]
                   ELSE EmptyStore]
  /\ embeddingCache = <<>>
  /\ lastIndex = 0
  /\ lastCleanupTime = 0
  /\ lastCleanupTimeOther = 0
  /\ initError = FALSE
  /\ now = StartTime
  /\ ticks = 0
  /\ inFlight = <<>>
  /\ surfaced = {}
  /\ applied = <<>>
  /\ last = [op |-> "opened"]

NextIndex ==
  \/ BackfillFTSRuns
  \/ RecordLearningIndexed
  \/ CleanupIndexed

SpecIndex == InitIndex /\ [][NextIndex]_vars

----------------------------------------------------------------------------
(* The whole program *)

Next ==
  \/ Tick
  \/ RecordLearning
  \/ AddGoldenRule
  \/ AddHeuristic
  \/ IncrementGoldenRuleHitsCall
  \/ GetContextCall
  \/ GetContextCallOther
  \/ SearchHybrid
  \/ ChatParams
  \/ GenerateCall
  \/ GenerateUncachedReturns
  \/ GenerateUncachedThrows
  \/ RunCleanup
  \/ FindEmergentPatternsCall
  \/ PromoteToRuleCall
  \/ FormatContextForPromptCall
  \/ RecordLearningScoped
  \/ AddGoldenRuleScoped
  \/ FindProjectRootStep
  \/ CosineSimilarityCall
  \/ EventHook
  \/ Initialize
  \/ SearchHybridStart
  \/ SearchLearningsReturns
  \/ SearchFTSMatch
  \/ SearchFTSLookup
  \/ SearchHybridReturns
  \/ CleanupDuringSearch
  \/ RecordLearningSelects
  \/ RecordLearningInserts
  \/ ClockMoves
  \/ RecordLearningTagged
  \/ InitPromiseStep
  \/ HookFires
  \/ HookResumes
  \/ ElfExecute
  \/ BackfillFTSRuns
  \/ RecordLearningIndexed
  \/ CleanupIndexed
  \/ MarkSurfaced
  \/ ApplyFeedback

Spec == Init /\ [][Next]_vars

----------------------------------------------------------------------------
(* Claims *)

(* C1: a recordLearning call whose content or payload holds the marker     *)
(* "<private>" inserts no learning row into any store and does not consult *)
(* the embedding provider or cache: the write is skipped, nothing is       *)
(* stored in redacted form.                                                *)
C1_PrivateWriteSkipped ==
  [][(/\ last'.op = "recordLearning"
      /\ \/ \E i \in 1..Len(last'.content) : last'.content[i] = "<private>"
         \/ \E i \in 1..Len(last'.context) : last'.context[i] = "<private>")
     => /\ stores' = stores
        /\ embeddingCache' = embeddingCache
        /\ last'.generated = <<>>
        /\ last'.outcome = "private"]_vars

(* a call with the marker in the payload only, on a store that holds rows *)
C1_Witness ==
  /\ last.op = "recordLearning"
  /\ last.outcome = "private"
  /\ last.context = CtxPrivate
  /\ \A i \in 1..Len(last.content) : last.content[i] # "<private>"
  /\ stores[last.target].learnings # <<>>

(* C2: a recordLearning call that follows a completed recordLearning call  *)
(* for the same target store with the same context_hash is a no-op, and    *)
(* the store holds exactly one learning with that hash, also when the      *)
(* content or the category of the second call differs.                     *)
C2_SameHashRecordedOnce ==
  [][(/\ last.op = "recordLearning"
      /\ last.outcome \in {"stored", "duplicate"}
      /\ last'.op = "recordLearning"
      /\ last'.target = last.target
      /\ last'.hash = last.hash)
     => /\ stores' = stores
        /\ Cardinality({k \in 1..Len(stores'[last'.target].learnings) :
                          stores'[last'.target].learnings[k].context_hash = last'.hash}) = 1]_vars

(* the second call came with another content and another category than    *)
(* the stored row of that hash                                             *)
C2_Witness ==
  /\ last.op = "recordLearning"
  /\ last.outcome = "duplicate"
  /\ last.content = LError
  /\ \E l \in Range(stores[last.target].learnings) :
       l.context_hash = last.hash /\ l.content = LBuild /\ l.category = "failure"

(* C3: when the query on one active store fails in the rules, learnings or *)
(* heuristics fan-out of getContext, getContext raises no error to its     *)
(* caller and returns a Context built from the remaining store: here both  *)
(* stores hold rules, so the Context has rules whichever store failed.     *)
C3_StoreFailureIsolated ==
  (/\ last.op = "getContext"
   /\ hasProject
   /\ stores["global"].rules # <<>>
   /\ stores["project"].rules # <<>>
   /\ last.failed \in {"rules", "learnings", "heuristics"})
  => /\ last.context.ok
     /\ last.context.goldenRules # <<>>

(* C4: the chat.params hook never raises, and whenever initialization,     *)
(* cleanup, retrieval, embedding generation or the hit-count update fails  *)
(* it leaves the system prompt and the message text as they were received. *)
C4_HookFailsOpen ==
  last.op = "chat.params"
  => /\ ~last.raised
     /\ last.failed # ""
        => /\ last.systemPrompt = <<last.systemPromptIn>>
           /\ last.text = <<last.userMessage>>

(* the hit-count update failed behind a retrieval that found a rule *)
C4_Witness ==
  /\ last.op = "chat.params"
  /\ last.failed = "hits"
  /\ last.systemPromptIn = <<"system">>
  /\ \E s \in Scopes : stores[s].rules # <<>>

(* C5: searchHybrid returns each learning id at most once; a learning that *)
(* only the semantic search found is tagged semantic and keeps its         *)
(* similarity score, one that only the keyword search found is tagged      *)
(* keyword with the score 1.0, and a learning is tagged hybrid exactly     *)
(* when both searches found it, with the score min(1.0, semantic + 0.1).   *)
C5_HybridTagging ==
  (last.op = "searchHybrid" /\ last.ok)
  => LET results == last.results
         semantic(id) == {v \in Range(last.vectorResults) : v.item.id = id}
         keyword(id) == {v \in Range(last.ftsResults) : v.item.id = id}
     IN /\ \A i, j \in 1..Len(results) :
             i # j => results[i].item.id # results[j].item.id
        /\ \A k \in 1..Len(results) :
             LET r == results[k]
                 inSemantic == semantic(r.item.id) # {}
                 inKeyword == keyword(r.item.id) # {}
             IN /\ (r.item.matchType = "hybrid") <=> (inSemantic /\ inKeyword)
                /\ (inSemantic /\ ~inKeyword)
                   => /\ r.item.matchType = "semantic"
                      /\ \E v \in semantic(r.item.id) : r.score = v.score
                /\ (inKeyword /\ ~inSemantic)
                   => /\ r.item.matchType = "keyword"
                      /\ r.score = FTS_SCORE
                /\ (inSemantic /\ inKeyword)
                   => \E v \in semantic(r.item.id) :
                        r.score = Min(SCALE, v.score + HYBRID_BOOST)

(* C6: when a global-scoped and a project-scoped learning both match the   *)
(* query, searchHybrid returns both and puts the project-scoped one first  *)
(* when their scores are equal.                                            *)
C6_HybridProjectFirst ==
  (last.op = "searchHybrid" /\ last.ok)
  => \A i, j \in 1..Len(last.results) :
       (/\ last.results[i].item.scope = "project"
        /\ last.results[j].item.scope = "global"
        /\ last.results[i].score = last.results[j].score)
       => i < j

(* C7: the learnings of getContext are in descending order of the score    *)
(* plus 0.05 for project-scoped items, so with equal scores the            *)
(* project-scoped learning ranks first; the score of every returned item   *)
(* is the raw similarity.                                                  *)
C7_LearningsScopeBias ==
  (last.op = "getContext" /\ last.context.ok)
  => LET ls == last.context.relevantLearnings
         rank(r) == r.score + (IF r.item.scope = "project" THEN PROJECT_BOOST ELSE 0)
     IN /\ \A i, j \in 1..Len(ls) : i < j => rank(ls[i]) >= rank(ls[j])
        /\ \A i, j \in 1..Len(ls) :
             (/\ ls[i].item.scope = "project"
              /\ ls[j].item.scope = "global"
              /\ ls[i].score = ls[j].score)
             => i < j
        /\ \A k \in 1..Len(ls) :
             ls[k].score = CosineSimilarity(Embed(last.prompt), ls[k].item.embedding)

(* a project-scoped and a global-scoped learning of equal score returned,  *)
(* and a project-scoped one ranked before a global one of higher score     *)
C7_Witness ==
  /\ last.op = "getContext"
  /\ last.context.ok
  /\ LET ls == last.context.relevantLearnings
     IN /\ \E i, j \in 1..Len(ls) :
             /\ ls[i].item.scope = "project"
             /\ ls[j].item.scope = "global"
             /\ ls[i].score = ls[j].score
        /\ \E i, j \in 1..Len(ls) :
             /\ i < j
             /\ ls[i].item.scope = "project"
             /\ ls[j].item.scope = "global"
             /\ ls[i].score < ls[j].score

C9_ProjectHeuristicShadows ==
  (last.op = "getContext" /\ last.context.ok /\ hasProject)
  => \A g \in Range(stores["global"].heuristics) :
       (/\ \E h \in Range(stores["project"].heuristics) : h.pattern = g.pattern
        /\ PatternValid(g.pattern)
        /\ PatternMatches(g.pattern, last.prompt))
       => LET found == {k \in 1..Len(last.context.heuristics) :
                          last.context.heuristics[k].pattern = g.pattern}
          IN /\ Cardinality(found) = 1
             /\ \A k \in found : last.context.heuristics[k].scope = "project"

(* C10: two getContext calls for the same prompt with nothing in between   *)
(* return the same ordered rules, learnings and heuristics, in whatever    *)
(* order the queries on the stores complete.                               *)
C10_GetContextIdempotent ==
  [][(/\ last.op = "getContext"
      /\ last.context.ok
      /\ last'.op = "getContext"
      /\ last'.context.ok
      /\ last'.prompt = last.prompt)
     => last'.context = last.context]_vars

(* C11: the learnings of getContext are the hybrid merge of the semantic   *)
(* and the keyword search: unless the list is truncated at                 *)
(* MAX_RELEVANT_LEARNINGS, every learning of an active store whose indexed *)
(* text matches the prompt by keyword is in the Context (tagged keyword or *)
(* hybrid where the item carries a tag), also when its similarity to the   *)
(* prompt is below the threshold.                                          *)
C11_ContextLearningsAreHybrid ==
  (last.op = "getContext" /\ last.context.ok)
  => LET ls == last.context.relevantLearnings
     IN \/ Len(ls) = MAX_RELEVANT_LEARNINGS
        \/ \A s \in Range(Clients) : \A l \in Range(stores[s].learnings) :
             FtsMatch(l.content, EscapeQuery(last.prompt))
             => \E k \in 1..Len(ls) :
                  /\ ls[k].item.id = l.id
                  /\ "matchType" \in DOMAIN ls[k].item
                     => ls[k].item.matchType \in {"keyword", "hybrid"}

(* C12: every learning that the semantic search of getContext returns has  *)
(* a similarity to the prompt at or above SIMILARITY_THRESHOLD, and a      *)
(* learning of an active store at or above the threshold is left out only  *)
(* when MAX_RELEVANT_LEARNINGS learnings are returned, none of which ranks *)
(* behind it.                                                              *)
C12_SemanticThreshold ==
  (last.op = "getContext" /\ last.context.ok)
  => LET ls == last.context.relevantLearnings
         sim(l) == CosineSimilarity(Embed(last.prompt), l.embedding)
         rank(score, scope) == score + (IF scope = "project" THEN PROJECT_BOOST ELSE 0)
         returned(l, s) == \E k \in 1..Len(ls) : ls[k].item = WithScope(l, s)
     IN /\ \A k \in 1..Len(ls) :
             /\ ls[k].score = sim(ls[k].item)
             /\ ls[k].score >= SIMILARITY_THRESHOLD
             /\ \E l \in Range(stores[ls[k].item.scope].learnings) :
                  ls[k].item = WithScope(l, ls[k].item.scope)
        /\ \A s \in Range(Clients) : \A l \in Range(stores[s].learnings) :
             (sim(l) >= SIMILARITY_THRESHOLD /\ ~returned(l, s))
             => /\ Len(ls) = MAX_RELEVANT_LEARNINGS
                /\ \A k \in 1..Len(ls) :
                     rank(ls[k].score, ls[k].item.scope) >= rank(sim(l), s)

(* the list is full, a learning at or above the threshold is left out and  *)
(* the stores hold a learning below the threshold                          *)
C12_Witness ==
  /\ last.op = "getContext"
  /\ last.context.ok
  /\ Len(last.context.relevantLearnings) = MAX_RELEVANT_LEARNINGS
  /\ \E s \in Range(Clients) : \E l \in Range(stores[s].learnings) :
       /\ CosineSimilarity(Embed(last.prompt), l.embedding) >= SIMILARITY_THRESHOLD
       /\ \A k \in 1..Len(last.context.relevantLearnings) :
            last.context.relevantLearnings[k].item # WithScope(l, s)
  /\ \E s \in Range(Clients) : \E l \in Range(stores[s].learnings) :
       CosineSimilarity(Embed(last.prompt), l.embedding) < SIMILARITY_THRESHOLD

(* C13: generate(text) returns the cached vector without calling the      *)
(* provider exactly when the cache holds an entry for text of age less     *)
(* than CACHE_TTL; otherwise it calls the provider once, and when the      *)
(* provider returns the cache holds one entry for text, with the           *)
(* provider's vector and the timestamp of that moment.                     *)
C13_CacheHitExactlyWhenFresh ==
  [][/\ last'.op = "generate"
        => LET fresh == {i \in 1..Len(embeddingCache) :
                           /\ embeddingCache[i].text = last'.text
                           /\ now - embeddingCache[i].timestamp < CACHE_TTL}
           IN /\ last'.hit <=> fresh # {}
              /\ last'.hit
                 => /\ \E i \in fresh : last'.embedding = embeddingCache[i].embedding
                    /\ inFlight' = inFlight
                    /\ embeddingCache' = embeddingCache
              /\ ~last'.hit
                 => /\ inFlight' = Append(inFlight, last'.text)
                    /\ \A i \in 1..Len(embeddingCache') :
                         embeddingCache'[i].text # last'.text
     /\ last'.op = "generate.stored"
        => /\ Len(inFlight') = Len(inFlight) - 1
           /\ last'.embedding = Embed(last'.text)
           /\ Cardinality({i \in 1..Len(embeddingCache') :
                             embeddingCache'[i].text = last'.text}) = 1
           /\ \E i \in 1..Len(embeddingCache') :
                embeddingCache'[i] = [text |-> last'.text, embedding |-> last'.embedding,
                                      timestamp |-> now']]_vars

(* a call found an entry that was exactly CACHE_TTL old and went to the    *)
(* provider                                                                *)
C13_Witness ==
  /\ last.op = "generate"
  /\ last.age = <<CACHE_TTL>>
  /\ ~last.hit
  /\ inFlight # <<>>
  /\ inFlight[Len(inFlight)] = last.text

(* C14: after any interleaving of generate calls, concurrent misses        *)
(* included, the embedding cache holds at most CACHE_SIZE entries.         *)
C14_CacheBounded == Len(embeddingCache) <= CACHE_SIZE

(* a miss has been stored in the full cache, at the cost of the first      *)
(* entry, while another miss is in flight                                  *)
C14_Witness ==
  /\ last.op = "generate.stored"
  /\ last.evicted # <<>>
  /\ Len(embeddingCache) = CACHE_SIZE
  /\ inFlight # <<>>

C17_CleanupOncePerInterval ==
  [][\E previous \in {IF lastCleanupTime > lastCleanupTimeOther
                       THEN lastCleanupTime ELSE lastCleanupTimeOther} :
       /\ (lastCleanupTime' # lastCleanupTime \/ lastCleanupTimeOther' # lastCleanupTimeOther)
          => now - previous >= CLEANUP_INTERVAL
       /\ (last'.op = "getContext" /\ now - previous >= CLEANUP_INTERVAL)
          => (lastCleanupTime' = now \/ lastCleanupTimeOther' = now)]_vars

(* C18: when the deltas of an observed outcome have been applied, the set  *)
(* of surfaced ids is empty, and an outcome that is observed without a     *)
(* retrieval since the last one changes no utility_score.                  *)
C18_SurfacedConsumedOnce ==
  [][last'.op = "feedback"
     => /\ surfaced' = {}
        /\ last.op = "feedback" => stores' = stores]_vars

(* two outcomes in a row: the first one changed the score of a surfaced    *)
(* learning, the second one found nothing to apply                         *)
C18_Witness ==
  /\ last.op = "feedback"
  /\ Len(applied) = 2
  /\ applied[1].ids # {}
  /\ applied[2].ids = {}
  /\ \E s \in Scopes : \E l \in Range(stores[s].learnings) :
       l.id \in applied[1].ids /\ l.utility_score = SCALE + applied[1].delta

C20_EmergentPatterns ==
  last.op = "findEmergentPatterns"
  => \A c \in Range(last.clusters) :
       LET row(k) == CHOOSE l \in Range(stores[c.dbPaths[k]].learnings) : l.id = c.ids[k]
       IN /\ Len(c.ids) >= last.minCount
          /\ Len(c.dbPaths) = Len(c.ids)
          /\ \A k \in 1..Len(c.ids) :
               /\ c.dbPaths[k] \in Range(Clients)
               /\ \E l \in Range(stores[c.dbPaths[k]].learnings) : l.id = c.ids[k]
               /\ row(k).created_at > now - LOOKBACK_DAYS * DAY
          /\ \A k \in 2..Len(c.ids) :
               CosineSimilarity(row(1).embedding, row(k).embedding) >= last.threshold

(* a cluster with members of both stores, two of which are less similar to *)
(* each other than the threshold, while a store holds a learning that is   *)
(* exactly LOOKBACK_DAYS days old, as similar to the seed as the threshold *)
(* asks, and in no cluster                                                 *)
C20_Witness ==
  /\ last.op = "findEmergentPatterns"
  /\ \E c \in Range(last.clusters) :
       /\ "global" \in Range(c.dbPaths)
       /\ "project" \in Range(c.dbPaths)
       /\ \E j, k \in 2..Len(c.ids) :
            LET a == CHOOSE l \in Range(stores[c.dbPaths[j]].learnings) : l.id = c.ids[j]
                b == CHOOSE l \in Range(stores[c.dbPaths[k]].learnings) : l.id = c.ids[k]
            IN CosineSimilarity(a.embedding, b.embedding) < last.threshold
       /\ \E l \in Range(stores["global"].learnings) :
            /\ l.created_at = now - LOOKBACK_DAYS * DAY
            /\ CosineSimilarity(Embed(c.content[1]), l.embedding) >= last.threshold
            /\ \A d \in Range(last.clusters) : l.id \notin Range(d.ids)

(* the learnings at i, j and k of the window are similar to each other at  *)
(* or above threshold                                                      *)
PairwiseSimilar(all, i, j, k, threshold) ==
  /\ CosineSimilarity(all[i].embedding, all[j].embedding) >= threshold
  /\ CosineSimilarity(all[i].embedding, all[k].embedding) >= threshold
  /\ CosineSimilarity(all[j].embedding, all[k].embedding) >= threshold

(* C21 as stated: whenever the learnings inside the lookback window        *)
(* include three whose pairwise similarity is at or above threshold,       *)
(* findEmergentPatterns(threshold, 3) returns a cluster that contains all  *)
(* three of them; when those three are the only learnings in the window it *)
(* returns exactly one cluster, of size 3.                                 *)
C21_PairwiseSimilarClustered ==
  (last.op = "findEmergentPatterns" /\ last.minCount = 3)
  => \E all \in {RecentLearnings(stores, now)} :
       /\ \A i, j, k \in 1..Len(all) :
            (i < j /\ j < k /\ PairwiseSimilar(all, i, j, k, last.threshold))
            => \E c \in Range(last.clusters) :
                 {all[i].id, all[j].id, all[k].id} \subseteq Range(c.ids)
       /\ (Len(all) = 3 /\ PairwiseSimilar(all, 1, 2, 3, last.threshold))
          => /\ Len(last.clusters) = 1
             /\ Len(last.clusters[1].ids) = 3

(* C21 amended: whenever the learnings inside the lookback window include  *)
(* three whose pairwise similarity is at or above threshold and none of    *)
(* the three has joined the cluster of a seed that comes before the first  *)
(* of them, findEmergentPatterns(threshold, 3) returns a cluster that      *)
(* contains all three of them; when those three are the only learnings in  *)
(* the window it returns exactly one cluster, of size 3.                   *)
C21_UnclaimedTripleClustered ==
  (last.op = "findEmergentPatterns" /\ last.minCount = 3)
  => \E all \in {RecentLearnings(stores, now)} :
     \E every \in {FindEmergentPatterns(stores, now, last.threshold, 1)} :
       /\ \A i, j, k \in 1..Len(all) :
            ( /\ i < j /\ j < k
              /\ PairwiseSimilar(all, i, j, k, last.threshold)
              /\ \A c \in Range(every) :
                   c.ids[1] \in {all[n].id : n \in 1..(i - 1)}
                   => {all[i].id, all[j].id, all[k].id} \cap Range(c.ids) = {} )
            => \E c \in Range(last.clusters) :
                 {all[i].id, all[j].id, all[k].id} \subseteq Range(c.ids)
       /\ (Len(all) = 3 /\ PairwiseSimilar(all, 1, 2, 3, last.threshold))
          => /\ Len(last.clusters) = 1
             /\ Len(last.clusters[1].ids) = 3

(* the window holds more than three learnings; three that are pairwise    *)
(* similar, none of them in the cluster of an earlier seed, came back in   *)
(* one cluster, while three others that are pairwise similar came back in  *)
(* no cluster because an earlier seed had taken one of them                *)
C21_Witness ==
  /\ last.op = "findEmergentPatterns"
  /\ last.minCount = 3
  /\ \E all \in {RecentLearnings(stores, now)} :
     \E every \in {FindEmergentPatterns(stores, now, last.threshold, 1)} :
       /\ Len(all) > 3
       /\ \E i, j, k \in 1..Len(all) :
            /\ i < j /\ j < k
            /\ PairwiseSimilar(all, i, j, k, last.threshold)
            /\ \A c \in Range(every) :
                 c.ids[1] \in {all[n].id : n \in 1..(i - 1)}
                 => {all[i].id, all[j].id, all[k].id} \cap Range(c.ids) = {}
            /\ \E c \in Range(last.clusters) :
                 {all[i].id, all[j].id, all[k].id} \subseteq Range(c.ids)
       /\ \E i, j, k \in 1..Len(all) :
            /\ i < j /\ j < k
            /\ PairwiseSimilar(all, i, j, k, last.threshold)
            /\ \A c \in Range(last.clusters) :
                 ~({all[i].id, all[j].id, all[k].id} \subseteq Range(c.ids))

Headings == <<"\nGolden Rules:", "\nRelevant Past Experiences:", "\nApplicable Heuristics:">>

(* C23: formatContextForPrompt changes no state and its output is          *)
(* determined by the Context: the output starts with the [ELF MEMORY]      *)
(* header; the Golden Rules, Relevant Past Experiences and Applicable      *)
(* Heuristics blocks follow in that order, a block being there exactly     *)
(* when its list is not empty and holding one line per item in the order   *)
(* of the list; the line of a project-scoped item ends in " [project]" and *)
(* the line of a global-scoped item ends in the item's own text.           *)
C23_FormatForPrompt ==
  [][(last'.op = "formatContextForPrompt")
     => \E context \in {last'.context} : \E out \in {last'.formatted} :
        \E lists \in {<<context.goldenRules,
                        [k \in 1..Len(context.relevantLearnings) |->
                           context.relevantLearnings[k].item],
                        context.heuristics>>} :
        \E texts \in {<<[k \in 1..Len(lists[1]) |-> lists[1][k].content],
                        [k \in 1..Len(lists[2]) |-> lists[2][k].content],
                        [k \in 1..Len(lists[3]) |-> lists[3][k].suggestion]>>} :
        \E start \in {[b \in 1..3 |->
                         2 + SeqSum([a \in 1..(b - 1) |->
                                       IF Len(lists[a]) > 0 THEN Len(lists[a]) + 1
                                       ELSE 0])]} :
          /\ UNCHANGED <<stores, embeddingCache, lastCleanupTime>>
          /\ out[1] = <<"[ELF MEMORY]">>
          /\ Len(out) = start[3] - 1
                        + (IF Len(lists[3]) > 0 THEN Len(lists[3]) + 1 ELSE 0)
          /\ \A b \in 1..3 :
               /\ (<<Headings[b]>> \in Range(out)) <=> (Len(lists[b]) > 0)
               /\ Len(lists[b]) > 0 => out[start[b]] = <<Headings[b]>>
               /\ \A k \in 1..Len(lists[b]) :
                    \E line \in {out[start[b] + k]} :
                    \E text \in {texts[b][k]} :
                      IF lists[b][k].scope = "project"
                      THEN /\ line[Len(line)] = "[project]"
                           /\ SubSeq(line, Len(line) - Len(text), Len(line) - 1) = text
                      ELSE SubSeq(line, Len(line) - Len(text) + 1, Len(line)) = text
    ]_vars

(* a Context with a project-scoped and a global-scoped rule, learnings and *)
(* no heuristics has been formatted                                        *)
C23_Witness ==
  /\ last.op = "formatContextForPrompt"
  /\ \E i, j \in 1..Len(last.context.goldenRules) :
       /\ last.context.goldenRules[i].scope = "project"
       /\ last.context.goldenRules[j].scope = "global"
  /\ Len(last.context.relevantLearnings) > 0
  /\ Len(last.context.heuristics) = 0
  /\ Len(last.formatted) = 3 + Len(last.context.relevantLearnings) + 2

(* C24: a recordLearning or addGoldenRule call writes to at most one store *)
(* and leaves the other store unchanged: the store it writes to is the     *)
(* project store when the scope is project and a project root was found    *)
(* for the working directory, the global store otherwise, where the scope  *)
(* of a call that names none is project for recordLearning and global for  *)
(* addGoldenRule; a call that stores adds one row to that store.           *)
C24_WritesOneStore ==
  [][(last'.op \in {"recordLearning", "addGoldenRule"} /\ "scope" \in DOMAIN last')
     => \E scope \in {IF last'.scope # Undefined THEN last'.scope
                      ELSE IF last'.op = "recordLearning" THEN "project"
                      ELSE "global"} :
        \E written \in {IF scope = "project" /\ hasProject THEN "project"
                        ELSE "global"} :
          /\ \A s \in Scopes \ {written} : stores'[s] = stores[s]
          /\ last'.outcome # "stored" => stores' = stores
          /\ (last'.outcome = "stored" /\ last'.op = "recordLearning")
             => /\ Len(stores'[written].learnings) = Len(stores[written].learnings) + 1
                /\ stores'[written].rules = stores[written].rules
          /\ (last'.outcome = "stored" /\ last'.op = "addGoldenRule")
             => /\ Len(stores'[written].rules) = Len(stores[written].rules) + 1
                /\ stores'[written].learnings = stores[written].learnings
    ]_vars

(* with a project root: a recordLearning call that names no scope has      *)
(* stored its learning, the project store holds learnings and no rule, the *)
(* global store a rule and no learning                                     *)
C24_Witness ==
  /\ hasProject
  /\ last.op = "recordLearning"
  /\ "scope" \in DOMAIN last
  /\ last.scope = Undefined
  /\ last.outcome = "stored"
  /\ Len(stores["project"].learnings) = 1
  /\ Len(stores["project"].rules) = 0
  /\ Len(stores["global"].learnings) = 0
  /\ Len(stores["global"].rules) = 1

(* C25: each time the chat.params hook retrieves a Context for a non-empty *)
(* user message, and no query of the hook throws, the hit_count of every   *)
(* rule returned in that Context increases by exactly 1 and the hit_count  *)
(* of every rule not returned is unchanged.                                *)
C25_ReturnedRulesHitOnce ==
  [][(last'.op = "chat.params" /\ last'.retrieved)
     => \A s \in Scopes : \A k \in 1..Len(stores'[s].rules) :
          \E after \in {stores'[s].rules[k]} :
          \E before \in {r \in Range(stores[s].rules) : r.id = after.id} :
            after.hit_count
              = before.hit_count
                + (IF \E c \in Range(last'.context.goldenRules) :
                        c.id = after.id /\ c.scope = s
                   THEN 1 ELSE 0)
    ]_vars

(* the nearest of the directories in among from dir upwards that holds a   *)
(* project marker                                                          *)
NearestMarked(entries, dir, among) ==
  LET marked == {d \in among : entries[d] \cap Markers # {}}
  IN IF marked = {} THEN NotFound
     ELSE Found(CHOOSE d \in marked : \A e \in marked : Len(e) <= Len(d))

C27_ZeroNormGivesZero ==
  last.op = "cosineSimilarity"
  => /\ last.similarity # NaN
     /\ (Dot(last.a, last.a) = 0 \/ Dot(last.b, last.b) = 0) => last.similarity = 0

(* the heuristics of the active stores whose pattern compiles and matches  *)
(* the prompt case-insensitively, each with its scope                      *)
MatchingHeuristics(prompt) ==
  UNION {{WithScope(h, ClientScopes[i]) :
            h \in {x \in Range(stores[Clients[i]].heuristics) :
                     PatternValid(x.pattern) /\ Lower(x.pattern) \in Range(LowerAll(prompt))}} :
         i \in 1..Len(Clients)}

(* C28 as stated: with a heuristic in a store whose pattern is not a valid *)
(* matching expression, getContext still returns, unless a query throws,   *)
(* and its heuristics are exactly the heuristics of the active stores      *)
(* whose pattern is valid and matches the prompt case-insensitively.       *)
C28_ExactlyTheMatchingHeuristics ==
  last.op = "getContext"
  => /\ last.context.ok \/ last.failed # "none"
     /\ last.context.ok
        => /\ Range(last.context.heuristics) = MatchingHeuristics(last.prompt)
           /\ Len(last.context.heuristics) = Cardinality(MatchingHeuristics(last.prompt))

(* C28 amended: a heuristic whose pattern is not a valid matching          *)
(* expression is skipped: getContext still returns, unless a query throws, *)
(* and its heuristics are heuristics of the active stores whose pattern is *)
(* valid and matches the prompt case-insensitively, exactly one for each   *)
(* distinct pattern text among these.                                      *)
C28_InvalidPatternSkipped ==
  last.op = "getContext"
  => /\ last.context.ok \/ last.failed # "none"
     /\ last.context.ok
        => \E matching \in {MatchingHeuristics(last.prompt)} :
             /\ Range(last.context.heuristics) \subseteq matching
             /\ \A h \in matching :
                  Cardinality({k \in 1..Len(last.context.heuristics) :
                                 last.context.heuristics[k].pattern = h.pattern}) = 1

(* a Context, returned from stores that hold a pattern that does not       *)
(* compile, one that does not match, and the pattern "Build" in both: its  *)
(* heuristics are one of the two "Build" heuristics                        *)
C28_Witness ==
  /\ last.op = "getContext"
  /\ last.context.ok
  /\ \E h \in Range(stores["global"].heuristics) : ~PatternValid(h.pattern)
  /\ \E h \in Range(stores["project"].heuristics) : h.pattern = "docker"
  /\ \E h \in Range(stores["global"].heuristics) : h.pattern = "Build"
  /\ \E h \in Range(stores["project"].heuristics) : h.pattern = "Build"
  /\ Len(last.context.heuristics) = 1
  /\ last.context.heuristics[1].pattern = "Build"

(* C29: when embedding generation fails during the recordLearning call of  *)
(* the event hook, the write is skipped: no learning row is inserted, both *)
(* stores are left unchanged, and the hook returns without raising.        *)
C29_EmbeddingFailureSkipsWrite ==
  [][(last'.op = "event" /\ last'.failed = "embed")
     => /\ stores' = stores
        /\ ~last'.raised
        /\ last'.recorded = "none"
    ]_vars

(* the event hook has caught a failed embedding of a tool failure, in a    *)
(* session whose project store already holds a learning that an earlier    *)
(* event recorded                                                          *)
C29_Witness ==
  /\ last.op = "event"
  /\ last.failed = "embed"
  /\ ~last.raised
  /\ HasError(last.event)
  /\ hasProject
  /\ stores["project"].learnings # <<>>

DefaultsOnce(db) ==
  /\ [k \in 1..Len(db.rules) |-> db.rules[k].content] = DEFAULT_RULES
  /\ [k \in 1..Len(db.heuristics) |->
        DefaultHeuristic(db.heuristics[k].pattern, db.heuristics[k].suggestion)]
     = DEFAULT_HEURISTICS

ResultKey(r) == <<r.item.scope, r.item.id>>

(* C31 as stated: a learning that was deleted between the keyword-index    *)
(* match and the lookup of its row is absent from the keyword results and  *)
(* from the hybrid results of the retrieval.                               *)
C31_MissedAbsentFromKeywordAndHybrid ==
  (last.op = "searchHybrid" /\ last.stage = "returned")
  => /\ \A r \in Range(last.ftsResults) : ResultKey(r) \notin last.missed
     /\ \A r \in Range(last.hybrid) : ResultKey(r) \notin last.missed

(* C31 amended: a learning that was deleted between the keyword-index      *)
(* match and the lookup of its row is absent from the keyword results, and *)
(* it is in the hybrid results only as a result of the semantic search,    *)
(* which had read its row before the deletion; every result is a row that  *)
(* the retrieval has read from its store.                                  *)
C31_MissedAbsentFromKeyword ==
  (last.op = "searchHybrid" /\ last.stage = "returned")
  => /\ \A r \in Range(last.ftsResults) :
          /\ ResultKey(r) \notin last.missed
          /\ r.item.embedding # <<>>
     /\ \A r \in Range(last.hybrid) :
          ResultKey(r) \in last.missed
          => /\ \E v \in Range(last.vectorResults) : ResultKey(v) = ResultKey(r)
             /\ ResultKey(r) \in last.gone

(* a retrieval has returned a keyword result of a store after the lookup   *)
(* of another matched entry of that store found its row deleted            *)
C31_Witness ==
  /\ last.op = "searchHybrid"
  /\ last.stage = "returned"
  /\ \E r \in Range(last.ftsResults) : \E m \in last.missed : m[1] = r.item.scope
  /\ \E r \in Range(last.hybrid) : ResultKey(r) \in last.missed

(* C32: after any interleaving of concurrent recordLearning calls, each    *)
(* store holds at most one learning per context_hash.                      *)
C32_OneLearningPerHash ==
  \A s \in Scopes :
    \A i, j \in 1..Len(stores[s].learnings) :
      stores[s].learnings[i].context_hash = stores[s].learnings[j].context_hash => i = j

(* C33: generate evicts an entry only when storing the new vector would    *)
(* otherwise take the cache above capacity: the cache is full and does not *)
(* hold the text, so the store of the second of two concurrent misses for  *)
(* one text evicts nothing.                                                *)
C33_EvictsOnlyAboveCapacity ==
  [][(last'.op = "generate.stored" /\ last'.evicted # <<>>)
     => /\ Len(embeddingCache) >= CACHE_SIZE
        /\ CachedAt(embeddingCache, last'.text) = 0
    ]_vars

(* C34: whether recordLearning skips a write for privacy depends only on   *)
(* the content and the payload of the call: a call with the arguments of   *)
(* the call before it, for the same store, skips if and only if that call  *)
(* skipped, also for upper-case tags.                                      *)
C34_SkipDependsOnArgumentsOnly ==
  [][(/\ last.op = "recordLearning"
      /\ last'.op = "recordLearning"
      /\ last'.content = last.content
      /\ last'.context = last.context
      /\ last'.target = last.target)
     => ((last'.outcome = "private") <=> (last.outcome = "private"))
    ]_vars

(* C35: maybeRunCleanup records the cleanup time before the deletions      *)
(* start and never resets it. A getContext call that finds the interval    *)
(* elapsed sets lastCleanupTime to its clock, also when the cleanup fails, *)
(* and a call whose cleanup fails fails with it; a getContext call inside  *)
(* CLEANUP_INTERVAL of the recorded time, also the time of a failed        *)
(* attempt, attempts no cleanup: it deletes nothing, does not fail of a    *)
(* cleanup and leaves the recorded time.                                   *)
C35_FailedCleanupNotRetried ==
  [][last'.op = "getContext"
     => /\ now - lastCleanupTime >= CLEANUP_INTERVAL
           => /\ lastCleanupTime' = now
              /\ last'.failed = "cleanup" => ~last'.context.ok
        /\ now - lastCleanupTime < CLEANUP_INTERVAL
           => /\ lastCleanupTime' = lastCleanupTime
              /\ stores' = stores
              /\ last'.failed # "cleanup"
    ]_vars

(* a getContext call has returned inside the interval of a cleanup that    *)
(* failed on the global store: the learning that had expired then is       *)
(* still there                                                             *)
C35_Witness ==
  /\ last.op = "getContext"
  /\ last.context.ok
  /\ now > lastCleanupTime
  /\ now - lastCleanupTime < CLEANUP_INTERVAL
  /\ \E l \in Range(stores["global"].learnings) :
       l.created_at < lastCleanupTime - LEARNING_EXPIRATION_DAYS * DAY

Members(c) == {<<c.dbPaths[n], c.ids[n]>> : n \in 1..Len(c.ids)}

(* C37: the clusters returned by findEmergentPatterns are pairwise         *)
(* disjoint: no learning is a member of two clusters, and a learning that  *)
(* joined an earlier seed's cluster never seeds or joins a later cluster,  *)
(* even when that earlier cluster was discarded for having fewer than      *)
(* minCount members.  The clusters of every seed, kept or discarded, are   *)
(* those of the same scan with minCount 1.                                 *)
C37_ClustersDisjoint ==
  last.op = "findEmergentPatterns"
  => \E every \in {FindEmergentPatterns(stores, last.at, last.threshold, 1)} :
       /\ \A a, b \in 1..Len(last.clusters) :
            a # b => Members(last.clusters[a]) \cap Members(last.clusters[b]) = {}
       /\ \A c \in Range(last.clusters) : c \in Range(every)
       /\ \A a, b \in 1..Len(every) :
            a < b => /\ Members(every[a]) \cap Members(every[b]) = {}
                     /\ every[b].ids[1] \notin Range(every[a].ids)

(* a cluster of two or more that was discarded for its size had taken a    *)
(* learning that is at threshold to the seed of a later cluster            *)
C37_Witness ==
  /\ last.op = "findEmergentPatterns"
  /\ \E all \in {RecentLearnings(stores, last.at)} :
     \E every \in {FindEmergentPatterns(stores, last.at, last.threshold, 1)} :
       \E a, b \in 1..Len(every) :
         /\ a < b
         /\ every[a] \notin Range(last.clusters)
         /\ Len(every[a].ids) >= 2
         /\ \E j, k \in 1..Len(all) :
              /\ all[j].id \in Range(every[a].ids) /\ all[j].id # every[a].ids[1]
              /\ all[k].id = every[b].ids[1]
              /\ CosineSimilarity(all[j].embedding, all[k].embedding) >= last.threshold

(* C38: plugin initialization (store schema creation, model warm-up,       *)
(* seeding, keyword-index backfill) runs exactly once per plugin instance  *)
(* however many hooks fire while it is in progress; every chat.params,     *)
(* event and tool invocation waits for it to finish before touching a      *)
(* store, and after an initialization failure no hook invocation reads or  *)
(* writes any store.  A hook that waits is resumed or rejected in the end. *)
C38_InitializedOnceAndAwaited ==
  /\ [](Plugin =>
          /\ \A a, b \in 1..Len(last.done) : a # b => last.done[a] # last.done[b]
          /\ last.stage = "ready" => last.done = InitStages
          /\ \A k \in 1..Len(last.touches) : last.touches[k].stage = "ready"
          /\ last.stage = "failed" => last.touches = <<>>)
  /\ [][Plugin /\ last.stage = "failed"
        => stores' = stores /\ last'.touches = last.touches]_vars
  /\ [][Plugin /\ last.stage \in Range(InitStages) /\ last'.done = last.done
        => stores' = stores /\ last'.touches = last.touches]_vars
  /\ (Plugin /\ last.waiting # <<>>) ~> (Plugin /\ last.waiting = <<>>)

(* two hooks fired while the initialization was in progress, waited, and   *)
(* went on to the stores once it had seeded the empty global store         *)
C38_Witness ==
  /\ Plugin
  /\ last.stage = "ready"
  /\ Len(stores["global"].rules) = Len(DEFAULT_RULES)
  /\ Len(last.touches) = 2
  /\ \A k \in 1..2 : last.touches[k].firedAt \in Range(InitStages)
  /\ last.touches[1].kind # last.touches[2].kind

(* the ids of the rows that a list mode reads in the store s *)
ListedTable(mode, s) ==
  IF mode = "list-rules" THEN {r.id : r \in Range(stores[s].rules)}
  ELSE IF mode = "list-heuristics" THEN {h.id : h \in Range(stores[s].heuristics)}
  ELSE {l.id : l \in Range(stores[s].learnings)}

(* C39: every item returned by the elf tool's list modes is labelled with  *)
(* the scope of the store it was actually read from, and the scope         *)
(* reported by add-rule and add-heuristic is the scope of the store that   *)
(* was actually written, including when scope "project" is requested and   *)
(* no project root exists for the working directory.                       *)
C39_ScopeLabelsAreTheStores ==
  [][(last'.op = "elf" /\ last' # last)
     => /\ last'.mode \in ListModes
           => \A k \in 1..Len(last'.items) :
                last'.items[k].id \in ListedTable(last'.mode, last'.items[k].scope)
        /\ last'.mode \in AddModes
           => \A s \in Scopes : stores'[s] # stores[s] => s = last'.scope
    ]_vars

(* C40: after any sequence of learning inserts, cleanup deletions and      *)
(* backfillFTS runs on an initialized store, the keyword index of that     *)
(* store holds exactly one entry for each learning row and no entry for a  *)
(* deleted learning; running backfillFTS a second time adds nothing.       *)
C40_IndexMatchesLearnings ==
  ~Opened
  => /\ \A i \in 1..Len(Clients) :
          \E db \in {stores[Clients[i]]} :
            /\ \A l \in Range(db.learnings) :
                 Cardinality({k \in 1..Len(db.fts) : db.fts[k].id = l.id}) = 1
            /\ \A e \in Range(db.fts) : \E l \in Range(db.learnings) : l.id = e.id
            /\ BackfillFTS(db) = db
     /\ (last.op = "backfillFTS" /\ ~last.first) => last.added = 0

(* a backfill ran again after the first one had indexed the learnings of   *)
(* an old database, a cleanup had deleted the expired learning and a new   *)
(* learning had been recorded                                              *)
C40_Witness ==
  /\ last.op = "backfillFTS"
  /\ ~last.first
  /\ AgedLearnings[1].id \notin {l.id : l \in Range(stores["global"].learnings)}
  /\ \E l \in Range(stores["global"].learnings) : l.created_at >= StartTime
  /\ \E l \in Range(stores["global"].learnings) : l.created_at < StartTime

====
